---- MODULE Spec2Model ----
(***************************************************************************)
(* A model of the propositional-logic engine of src/backend/               *)
(* logic_checker.py (class LogicChecker).                                  *)
(*                                                                         *)
(* Python strings are sequences of one-character strings, Python tuples    *)
(* and lists are sequences, a dict is the sequence of its (key, value)     *)
(* pairs in insertion order.  Python's 0-based positions are kept 1-based  *)
(* here; "not found" (-1 in the code) is 0.                                *)
(*                                                                         *)
(* The evaluated texts are built over the letters a..z / A..Z, the blank,  *)
(* the parentheses, ~ and ^, and the two arrows -> and <-> written whole.  *)
(***************************************************************************)
EXTENDS Integers, Sequences, FiniteSets, TLC

\* variables: self.variables of the checker.  call, args: the method called
\* and its arguments.  pc: "called" until the method has run, then
\* "returned".  ret: what the call returned, [ok |-> TRUE, val |-> value], or
\* the ValueError it raised, [ok |-> FALSE, val |-> <<message, text>>].
\* history: the calls completed before the current one on this checker, each
\* with its arguments and its outcome.
VARIABLES variables, call, args, pc, ret, history

\* A TreeChecker: self.vertices, self.edges (the list of (v1, v2) tuples in
\* the order they were added) and self.adjacency, a defaultdict(set) held as
\* what a lookup gives for each name, the empty set for a key never
\* written.
VARIABLES vertices, edges, adjacency

\* The activations of _transform_logic that have not returned, the running
\* one first: expr, the text of the activation after the strip() and the
\* outer pairs taken away so far, and at, 0 before step 4 and the position
\* of the loop of step 4 after.
VARIABLES frames

\* The RelationChecker instances: self.set_a, self.relation and self._cache
\* of each.
VARIABLES set_a, relation, cache

logicVars == <<variables, history>>

treeVars == <<vertices, edges, adjacency>>

relationVars == <<set_a, relation, cache>>

vars == <<variables, call, args, pc, ret, history, vertices, edges, adjacency,
          frames, set_a, relation, cache>>

----------------------------------------------------------------------------
(* Bounds of the model.                                                    *)

\* Number of variable letters (p, q, r, s in this order) the generated
\* well-formed expressions are written over.
NumVars == 2

\* Longest raw text handed to _extract_variables.
MaxLen == 3

\* The number of tokens of the longest token text.
MaxTokens == 4

\* The number of edges up to which add_edge is called.
MaxEdges == 3

\* The number of pairs up to which the relation of a RelationChecker is
\* drawn from all relations over the elements.
MaxPairs == 2

----------------------------------------------------------------------------
(* Characters and the str / re primitives the code uses.                   *)

LowerLetters ==
    << "a","b","c","d","e","f","g","h","i","j","k","l","m",
       "n","o","p","q","r","s","t","u","v","w","x","y","z" >>

UpperLetters ==
    << "A","B","C","D","E","F","G","H","I","J","K","L","M",
       "N","O","P","Q","R","S","T","U","V","W","X","Y","Z" >>

Digits == {"0","1","2","3","4","5","6","7","8","9"}

Range(s) == { s[i] : i \in 1..Len(s) }

IndexOf(s, c) == CHOOSE i \in 1..Len(s) : s[i] = c

\* str.lower() on one character.
LowerChar(c) ==
    IF c \in Range(UpperLetters) THEN LowerLetters[IndexOf(UpperLetters, c)] ELSE c

\* str.lower()
RECURSIVE Lower(_)
Lower(s) == IF s = <<>> THEN <<>> ELSE <<LowerChar(Head(s))>> \o Lower(Tail(s))

\* The regular-expression class \w.
IsWordChar(c) ==
    c \in Range(LowerLetters) \cup Range(UpperLetters) \cup Digits \cup {"_"}

\* The regular-expression class [p-z].
IsPZ(c) == c \in { LowerLetters[i] : i \in 16..26 }

\* Position i of s matches \b<one word character>\b : a word boundary on
\* both sides of the character at i.
IsolatedAt(s, i) ==
    /\ IsWordChar(s[i])
    /\ (i = 1 \/ ~IsWordChar(s[i-1]))
    /\ (i = Len(s) \/ ~IsWordChar(s[i+1]))

\* sorted() of a set of lower-case letters.
Sorted(S) == SelectSeq(LowerLetters, LAMBDA c : c \in S)

\* str.strip(): blanks removed at both ends.
RECURSIVE LStrip(_)
LStrip(s) == IF s # <<>> /\ Head(s) = " " THEN LStrip(Tail(s)) ELSE s

RECURSIVE RStrip(_)
RStrip(s) ==
    IF s # <<>> /\ s[Len(s)] = " " THEN RStrip(SubSeq(s, 1, Len(s) - 1)) ELSE s

Strip(s) == RStrip(LStrip(s))

\* text.startswith(op, i), i a 1-based position
StartsWithAt(text, op, i) ==
    /\ i + Len(op) - 1 <= Len(text)
    /\ SubSeq(text, i, i + Len(op) - 1) = op

----------------------------------------------------------------------------
(* LogicChecker._extract_variables                                         *)

\* Variant without the lower-casing: set(re.findall(r'\b[p-z]\b', expression))
ExtractVariablesNoLower(expression) ==
    { expression[i] : i \in { j \in 1..Len(expression) :
                                 IsPZ(expression[j]) /\ IsolatedAt(expression, j) } }

\* set(re.findall(r'\b[p-z]\b', expression.lower()))
ExtractVariables(expression) ==
    LET s == Lower(expression)
    IN  { s[i] : i \in { j \in 1..Len(s) : IsPZ(s[j]) /\ IsolatedAt(s, j) } }

----------------------------------------------------------------------------
(* LogicChecker._transform_logic                                           *)

\* The scan of find_matching_paren from position i with the running count.
RECURSIVE MatchScan(_, _, _)
MatchScan(text, i, count) ==
    IF i > Len(text) THEN 0
    ELSE LET c == IF text[i] = "(" THEN count + 1
                   ELSE IF text[i] = ")" THEN count - 1
                   ELSE count
         IN  IF c = 0 THEN i ELSE MatchScan(text, i + 1, c)

\* find_matching_paren(text, start): the position closing the parenthesis
\* at start, 0 when there is none.
find_matching_paren(text, start) == MatchScan(text, start + 1, 1)

\* Variant that looks at the two ends only:
\* text.startswith('(') and text.endswith(')').
is_fully_enclosed_by_ends(text) ==
    /\ text # <<>>
    /\ Head(text) = "(" /\ text[Len(text)] = ")"

is_fully_enclosed(text) ==
    /\ text # <<>>
    /\ Head(text) = "(" /\ text[Len(text)] = ")"
    /\ find_matching_paren(text, 1) = Len(text)

\* while is_fully_enclosed(expr): expr = expr[1:-1].strip()
RECURSIVE StripOuter(_)
StripOuter(expr) ==
    IF is_fully_enclosed(expr)
    THEN StripOuter(Strip(SubSeq(expr, 2, Len(expr) - 1)))
    ELSE expr

RECURSIVE OpScan(_, _, _, _)
OpScan(text, op, i, nesting) ==
    IF i > Len(text) THEN 0
    ELSE IF text[i] = "(" THEN OpScan(text, op, i + 1, nesting + 1)
    ELSE IF text[i] = ")" THEN OpScan(text, op, i + 1, nesting - 1)
    ELSE IF nesting = 0 /\ StartsWithAt(text, op, i) THEN i
    ELSE OpScan(text, op, i + 1, nesting)

\* find_operator(text, op): the first position of op at nesting depth 0.
find_operator(text, op) == OpScan(text, op, 1, 0)

Biconditional == << "<", "-", ">" >>
Implication == << "-", ">" >>

Ok(s) == [ ok |-> TRUE, s |-> s ]
Unbalanced == [ ok |-> FALSE, s |-> <<>> ]

\* f"(not {left} or {right})"
ImplicationText(left, right) ==
    <<"(","n","o","t"," ">> \o left \o <<" ","o","r"," ">> \o right \o <<")">>

\* Variant that keeps one direction only: f"(not {left} or {right})".
BiconditionalTextOneWay(left, right) ==
    <<"(","n","o","t"," ">> \o left \o <<" ","o","r"," ">> \o right \o <<")">>

\* f"({left} == {right})"
BiconditionalText(left, right) ==
    <<"(">> \o left \o <<" ","=","="," ">> \o right \o <<")">>

\* The two rewritten spans put together; a ValueError raised in either
\* span is raised by the whole.
JoinBiconditional(left, right) ==
    IF ~left.ok \/ ~right.ok THEN Unbalanced
    ELSE Ok(BiconditionalText(left.s, right.s))

JoinImplication(left, right) ==
    IF ~left.ok \/ ~right.ok THEN Unbalanced
    ELSE Ok(ImplicationText(left.s, right.s))

\* result.append(f"({inner})") followed by the rest of the loop
JoinGroup(inner, rest) ==
    IF ~inner.ok \/ ~rest.ok THEN Unbalanced
    ELSE Ok(<<"(">> \o inner.s \o <<")">> \o rest.s)

\* Variant that exchanges '^' and 'v' when it copies them.
JoinCharExchanged(c, rest) ==
    IF ~rest.ok THEN Unbalanced
    ELSE Ok(<< IF c = "^" THEN "v" ELSE IF c = "v" THEN "^" ELSE c >> \o rest.s)

\* result.append(expr[i]) followed by the rest of the loop
JoinChar(c, rest) == IF ~rest.ok THEN Unbalanced ELSE Ok(<<c>> \o rest.s)

RECURSIVE TransformLogic(_)
RECURSIVE TransformGroups(_, _)

\* Variant that drops a parenthesis without a match instead of raising.
TransformGroupLenient(expr, i, end) ==
    IF end = 0 THEN TransformGroups(expr, i + 1)
    ELSE JoinGroup(TransformLogic(SubSeq(expr, i + 1, end - 1)),
                   TransformGroups(expr, end + 1))

\* The group opening at i and closing at end: raise when end is missing,
\* else transform the inside and go on after end.
TransformGroup(expr, i, end) ==
    IF end = 0 THEN Unbalanced
    ELSE JoinGroup(TransformLogic(SubSeq(expr, i + 1, end - 1)),
                   TransformGroups(expr, end + 1))

\* Step 4 of _transform_logic: the loop over expr from position i; every
\* parenthesised group is transformed and wrapped again, every other
\* character is copied.
TransformGroups(expr, i) ==
    IF i > Len(expr) THEN Ok(<<>>)
    ELSE IF expr[i] = "(" THEN TransformGroup(expr, i, find_matching_paren(expr, i))
    ELSE JoinChar(expr[i], TransformGroups(expr, i + 1))

\* Steps 2 to 4 on the stripped text; bi and im are the positions of the
\* top-level '<->' and '->' (0: none).
TransformSplit(expr, bi, im) ==
    IF bi # 0
    THEN JoinBiconditional(TransformLogic(SubSeq(expr, 1, bi - 1)),
                           TransformLogic(SubSeq(expr, bi + 3, Len(expr))))
    ELSE IF im # 0
    THEN JoinImplication(TransformLogic(SubSeq(expr, 1, im - 1)),
                         TransformLogic(SubSeq(expr, im + 2, Len(expr))))
    ELSE TransformGroups(expr, 1)

TransformStripped(expr) ==
    TransformSplit(expr, find_operator(expr, Biconditional),
                         find_operator(expr, Implication))

TransformLogic(text) == TransformStripped(StripOuter(Strip(text)))

\* raise ValueError("Unbalanced parentheses")
UnbalancedParentheses ==
    [ ok |-> FALSE, val |-> << "Unbalanced parentheses", <<>> >> ]

\* What a call of _transform_logic gives its caller, tr being the text or
\* the error.
TransformOutcome(tr) ==
    IF tr.ok THEN [ ok |-> TRUE, val |-> tr.s ] ELSE UnbalancedParentheses

----------------------------------------------------------------------------
(* LogicChecker._evaluate: the textual replacements                        *)

\* str.replace(old, new) for a one-character old.
RECURSIVE Replace(_, _, _)
Replace(s, old, new) ==
    IF s = <<>> THEN <<>>
    ELSE (IF Head(s) = old THEN new ELSE <<Head(s)>>) \o Replace(Tail(s), old, new)

\* The letter and the signs that _evaluate rewrites as Python operators.
OrToken == "v"
AndToken == "^"
NotToken == "~"

\* Variant with the two binary operators exchanged.
ReplaceOperatorsExchanged(expr) ==
    Replace(Replace(Replace(expr, OrToken, <<" ","a","n","d"," ">>),
                    AndToken, <<" ","o","r"," ">>),
            NotToken, <<" ","n","o","t"," ">>)

\* Variant with 'v' rewritten as ' or not '.
ReplaceOperatorsOrNot(expr) ==
    Replace(Replace(Replace(expr, OrToken, <<" ","o","r"," ","n","o","t"," ">>),
                    AndToken, <<" ","a","n","d"," ">>),
            NotToken, <<" ","n","o","t"," ">>)

\* expr.replace('v', ' or ').replace('^', ' and ').replace('~', ' not ')
ReplaceOperators(expr) ==
    Replace(Replace(Replace(expr, OrToken, <<" ","o","r"," ">>),
                    AndToken, <<" ","a","n","d"," ">>),
            NotToken, <<" ","n","o","t"," ">>)

\* str(True), str(False)
StrBool(b) == IF b THEN <<"T","r","u","e">> ELSE <<"F","a","l","s","e">>

\* re.sub(r'\b' + var + r'\b', repl, expr) from position i on: every
\* isolated occurrence of the one-character var is replaced.
RECURSIVE SubFrom(_, _, _, _)
SubFrom(expr, var, repl, i) ==
    IF i > Len(expr) THEN <<>>
    ELSE (IF expr[i] = var /\ IsolatedAt(expr, i) THEN repl ELSE <<expr[i]>>)
         \o SubFrom(expr, var, repl, i + 1)

SubVar(expr, var, repl) == SubFrom(expr, var, repl, 1)

\* for var, val in values.items(): expr = re.sub(..., str(val), expr)
RECURSIVE Substitute(_, _)
Substitute(expr, values) ==
    IF values = <<>> THEN expr
    ELSE Substitute(SubVar(expr, Head(values)[1], StrBool(Head(values)[2])),
                    Tail(values))

----------------------------------------------------------------------------
(* Python's eval() on the rewritten text: the tokens, then the grammar     *)
(*   disjunction := conjunction ('or' conjunction)*                        *)
(*   conjunction := inversion ('and' inversion)*                           *)
(*   inversion   := 'not' inversion | comparison                           *)
(*   comparison  := primary ('==' primary)*                                *)
(*   primary     := atom ( '(' [disjunction] ')' )*                        *)
(*   atom        := 'True' | 'False' | NAME | '(' [disjunction] ')'        *)
(* A value is "True", "False", "()" (the empty tuple) or "Error" (an       *)
(* exception raised while evaluating: NameError, TypeError).               *)

\* The end of the run of word characters starting at i.
RECURSIVE WordEnd(_, _)
WordEnd(s, i) ==
    IF i < Len(s) /\ IsWordChar(s[i+1]) THEN WordEnd(s, i + 1) ELSE i

WordToken(w) ==
    IF w = <<"T","r","u","e">> THEN "TRUE"
    ELSE IF w = <<"F","a","l","s","e">> THEN "FALSE"
    ELSE IF w = <<"n","o","t">> THEN "NOT"
    ELSE IF w = <<"o","r">> THEN "OR"
    ELSE IF w = <<"a","n","d">> THEN "AND"
    ELSE IF Head(w) \in Digits THEN "BAD"
    ELSE "NAME"

RECURSIVE Tokens(_, _)

\* The word from i to e as one token, then the tokens after it.
WordThenTokens(s, i, e) == <<WordToken(SubSeq(s, i, e))>> \o Tokens(s, e + 1)

\* Python's tokenizer.  The characters of an arrow left in the text ('-',
\* '>', '<') give the token "BAD": the text then holds Python's '->', which
\* no expression accepts.
Tokens(s, i) ==
    IF i > Len(s) THEN <<>>
    ELSE IF s[i] = " " THEN Tokens(s, i + 1)
    ELSE IF s[i] = "(" THEN <<"LP">> \o Tokens(s, i + 1)
    ELSE IF s[i] = ")" THEN <<"RP">> \o Tokens(s, i + 1)
    ELSE IF StartsWithAt(s, <<"=","=">>, i) THEN <<"EQ">> \o Tokens(s, i + 2)
    ELSE IF IsWordChar(s[i]) THEN WordThenTokens(s, i, WordEnd(s, i))
    ELSE <<"BAD">> \o Tokens(s, i + 1)

\* A parse result: ok (no syntax error so far), the value, the next position.
PR(ok, v, p) == [ ok |-> ok, v |-> v, p |-> p ]
SyntaxErr == PR(FALSE, "Error", 0)

Truthy(v) == v = "True"

PyBool(b) == IF b THEN "True" ELSE "False"

\* a or b, a and b, not a, a == b on values; an exception in the operand
\* that is evaluated propagates, an operand that is skipped raises nothing.
PyOr(a, b) == IF a = "Error" THEN "Error" ELSE IF Truthy(a) THEN a ELSE b
PyAnd(a, b) == IF a = "Error" THEN "Error" ELSE IF Truthy(a) THEN b ELSE a
PyNot(a) == IF a = "Error" THEN "Error" ELSE PyBool(~Truthy(a))
PyEq(a, b) == IF a = "Error" \/ b = "Error" THEN "Error" ELSE PyBool(a = b)

Tok(t, i) == IF i <= Len(t) THEN t[i] ELSE "END"

RECURSIVE Disjunction(_, _)
RECURSIVE DisjunctionRest(_, _)
RECURSIVE ConjunctionRest(_, _)
RECURSIVE Inversion(_, _)
RECURSIVE ComparisonRest(_, _, _)
RECURSIVE Trailers(_, _)

\* The ')' that must follow the disjunction d inside parentheses.
CloseGroup(t, d) ==
    IF d.ok /\ Tok(t, d.p) = "RP" THEN PR(TRUE, d.v, d.p + 1) ELSE SyntaxErr

\* '(' [disjunction] ')' with the '(' at i: the value inside, "()" if empty.
Group(t, i) ==
    IF Tok(t, i + 1) = "RP" THEN PR(TRUE, "()", i + 2)
    ELSE CloseGroup(t, Disjunction(t, i + 1))

AtomOf(t, i, k) ==
    IF k = "TRUE" THEN PR(TRUE, "True", i + 1)
    ELSE IF k = "FALSE" THEN PR(TRUE, "False", i + 1)
    ELSE IF k = "NAME" THEN PR(TRUE, "Error", i + 1)
    ELSE IF k = "LP" THEN Group(t, i)
    ELSE SyntaxErr

Atom(t, i) == AtomOf(t, i, Tok(t, i))

\* The call a(...) with the parsed argument list g: calling a bool or a
\* tuple raises TypeError.
Called(t, g) == IF g.ok THEN Trailers(t, PR(TRUE, "Error", g.p)) ELSE SyntaxErr

\* Call trailers after the primary a.
Trailers(t, a) ==
    IF a.ok /\ Tok(t, a.p) = "LP" THEN Called(t, Group(t, a.p)) ELSE a

Primary(t, i) == Trailers(t, Atom(t, i))

\* a == b == c is (a == b) and (b == c), each operand evaluated once.
ComparisonStep(t, left, acc, right) ==
    IF ~right.ok THEN SyntaxErr
    ELSE ComparisonRest(t, right,
            IF acc = "none" THEN PyEq(left.v, right.v)
            ELSE PyAnd(acc, PyEq(left.v, right.v)))

ComparisonRest(t, left, acc) ==
    IF ~left.ok THEN SyntaxErr
    ELSE IF Tok(t, left.p) = "EQ"
    THEN ComparisonStep(t, left, acc, Primary(t, left.p + 1))
    ELSE PR(TRUE, IF acc = "none" THEN left.v ELSE acc, left.p)

Comparison(t, i) == ComparisonRest(t, Primary(t, i), "none")

Negated(a) == IF a.ok THEN PR(TRUE, PyNot(a.v), a.p) ELSE SyntaxErr

Inversion(t, i) ==
    IF Tok(t, i) = "NOT" THEN Negated(Inversion(t, i + 1)) ELSE Comparison(t, i)

ConjunctionStep(t, left, right) ==
    IF ~right.ok THEN SyntaxErr
    ELSE ConjunctionRest(t, PR(TRUE, PyAnd(left.v, right.v), right.p))

ConjunctionRest(t, left) ==
    IF ~left.ok THEN SyntaxErr
    ELSE IF Tok(t, left.p) = "AND"
    THEN ConjunctionStep(t, left, Inversion(t, left.p + 1))
    ELSE left

Conjunction(t, i) == ConjunctionRest(t, Inversion(t, i))

DisjunctionStep(t, left, right) ==
    IF ~right.ok THEN SyntaxErr
    ELSE DisjunctionRest(t, PR(TRUE, PyOr(left.v, right.v), right.p))

DisjunctionRest(t, left) ==
    IF ~left.ok THEN SyntaxErr
    ELSE IF Tok(t, left.p) = "OR"
    THEN DisjunctionStep(t, left, Conjunction(t, left.p + 1))
    ELSE left

Disjunction(t, i) == DisjunctionRest(t, Conjunction(t, i))

\* The parse d of the tokens t must use them all.
Whole(t, d) == IF d.ok /\ d.p = Len(t) + 1 THEN d.v ELSE "Error"

Parse(t) == Whole(t, Disjunction(t, 1))

\* eval(text): the value, "Error" for SyntaxError and for an exception
\* raised while evaluating.
PyEval(text) == Parse(Tokens(text, 1))

----------------------------------------------------------------------------
(* LogicChecker._evaluate                                                  *)

Return(v) == [ ok |-> TRUE, val |-> v ]

\* raise ValueError(f"Invalid expression: {expression}")
InvalidExpression(expression) ==
    [ ok |-> FALSE, val |-> << "Invalid expression: ", expression >> ]

\* raise ValueError("Invalid expression with no variables")
InvalidNoVariables ==
    [ ok |-> FALSE, val |-> << "Invalid expression with no variables", <<>> >> ]

\* return eval(expr), any exception turned into the ValueError
Evaluated(expression, v) ==
    IF v = "Error" THEN InvalidExpression(expression) ELSE Return(v)

\* The part of _evaluate after the transformation tr.
EvaluateTransformed(expression, values, tr) ==
    IF ~tr.ok THEN InvalidExpression(expression)
    ELSE Evaluated(expression, PyEval(Substitute(ReplaceOperators(tr.s), values)))

Evaluate(expression, values) ==
    EvaluateTransformed(expression, values, TransformLogic(Lower(expression)))

----------------------------------------------------------------------------
(* LogicChecker.generate_truth_table                                       *)

\* list(itertools.product([False, True], repeat=n)): the last position
\* changes fastest, False comes before True.
RECURSIVE Product(_)

\* Variant over [True, False]: True comes before False.
RECURSIVE ExtendTrueFirst(_)
ExtendTrueFirst(prefixes) ==
    IF prefixes = <<>> THEN <<>>
    ELSE << Append(Head(prefixes), TRUE), Append(Head(prefixes), FALSE) >>
         \o ExtendTrueFirst(Tail(prefixes))

RECURSIVE Extend(_)
Extend(prefixes) ==
    IF prefixes = <<>> THEN <<>>
    ELSE << Append(Head(prefixes), FALSE), Append(Head(prefixes), TRUE) >>
         \o Extend(Tail(prefixes))

Product(n) == IF n = 0 THEN << <<>> >> ELSE Extend(Product(n - 1))

\* dict(zip(variables, values_tuple))
RECURSIVE Zip(_, _)
Zip(names, values_tuple) ==
    IF names = <<>> \/ values_tuple = <<>> THEN <<>>
    ELSE << <<Head(names), Head(values_tuple)>> >>
         \o Zip(Tail(names), Tail(values_tuple))

RECURSIVE TableRows(_, _, _, _)

\* rows.append((values_dict, result)) and the rest of the loop; an
\* evaluation that raised ends the call.
TableRow(expression, names, tuples, rows, values_dict, result) ==
    IF ~result.ok THEN result
    ELSE TableRows(expression, names, Tail(tuples),
                   Append(rows, <<values_dict, result.val>>))

TableRowFor(expression, names, tuples, rows, values_dict) ==
    TableRow(expression, names, tuples, rows, values_dict,
             Evaluate(expression, values_dict))

\* The for loop of generate_truth_table over the remaining tuples, rows
\* being the list built so far.
TableRows(expression, names, tuples, rows) ==
    IF tuples = <<>> THEN Return(<<names, rows>>)
    ELSE TableRowFor(expression, names, tuples, rows, Zip(names, Head(tuples)))

\* The branch "if not variables": one row with the empty dict.
TableNoVariables(result) ==
    IF result.ok THEN Return(<< <<>>, << << <<>>, result.val >> >> >>)
    ELSE InvalidNoVariables

TableOver(expression, names) ==
    IF names = <<>> THEN TableNoVariables(Evaluate(expression, <<>>))
    ELSE TableRows(expression, names, Product(Len(names)), <<>>)

GenerateTruthTable(expression) ==
    TableOver(expression, Sorted(ExtractVariables(expression)))

----------------------------------------------------------------------------
(* LogicChecker.check_equivalence                                          *)

\* An f-string: its fixed words, then the formatted part.
Text(fixed, formatted) == [ text |-> fixed, tail |-> formatted ]

\* d[k] of a dict
Lookup(d, k) == d[CHOOSE i \in 1..Len(d) : d[i][1] = k][2]

\* ", ".join(f"{k}={first_diff[k]}" for k in keys)
RECURSIVE JoinAssignment(_, _)
JoinAssignment(d, keys) ==
    IF keys = <<>> THEN <<>>
    ELSE <<Head(keys), "=">> \o StrBool(Lookup(d, Head(keys)))
         \o (IF Len(keys) > 1 THEN <<",", " ">> ELSE <<>>)
         \o JoinAssignment(d, Tail(keys))

\* diff_str, the keys taken in sorted order
DiffStr(first_diff) ==
    JoinAssignment(first_diff, Sorted({ first_diff[i][1] : i \in 1..Len(first_diff) }))

\* Variant "if result1 != result2 and not is_equiv": no difference is kept
KeepDiffWhenNotEquiv(st, values_dict, differ) ==
    IF differ /\ ~st.is_equiv
    THEN [ st EXCEPT !.is_equiv = FALSE, !.first_diff = values_dict ]
    ELSE st

\* Variant "if result1 != result2": every difference replaces the one kept
KeepLastDiff(st, values_dict, differ) ==
    IF differ
    THEN [ st EXCEPT !.is_equiv = FALSE, !.first_diff = values_dict ]
    ELSE st

\* if result1 != result2 and is_equiv: the first difference is kept
KeepFirstDiff(st, values_dict, differ) ==
    IF differ /\ st.is_equiv
    THEN [ st EXCEPT !.is_equiv = FALSE, !.first_diff = values_dict ]
    ELSE st

\* table1.append(...); table2.append(...)
AppendRows(st, values_dict, v1, v2) ==
    [ st EXCEPT !.table1 = Append(@, <<values_dict, v1>>),
                !.table2 = Append(@, <<values_dict, v2>>) ]

RECURSIVE CompareRows(_, _, _, _, _)

\* One turn of the loop with both results; expr1 is evaluated first, and
\* the first evaluation that raises ends the call.
CompareRow(expr1, expr2, all_vars, tuples, st, values_dict, result1, result2) ==
    IF ~result1.ok THEN result1
    ELSE IF ~result2.ok THEN result2
    ELSE CompareRows(expr1, expr2, all_vars, Tail(tuples),
            KeepFirstDiff(AppendRows(st, values_dict, result1.val, result2.val),
                          values_dict, result1.val # result2.val))

CompareRowFor(expr1, expr2, all_vars, tuples, st, values_dict) ==
    CompareRow(expr1, expr2, all_vars, tuples, st, values_dict,
               Evaluate(expr1, values_dict), Evaluate(expr2, values_dict))

\* The for loop of check_equivalence over the remaining tuples; st holds
\* table1, table2, is_equiv and first_diff.
CompareRows(expr1, expr2, all_vars, tuples, st) ==
    IF tuples = <<>> THEN Return(st)
    ELSE CompareRowFor(expr1, expr2, all_vars, tuples, st,
                       Zip(all_vars, Head(tuples)))

\* sorted(self._extract_variables(expr1) | self._extract_variables(expr2))
AllVars(expr1, expr2) ==
    Sorted(ExtractVariables(expr1) \cup ExtractVariables(expr2))

\* The branch "if not all_vars": the two values compared.
CompareNoVariables(result1, result2) ==
    IF ~result1.ok THEN result1
    ELSE IF ~result2.ok THEN result2
    ELSE Return(<< result1.val = result2.val,
                   IF result1.val = result2.val
                   THEN Text("Yes - Both expressions evaluate to the same value", <<>>)
                   ELSE Text("No - Expressions evaluate to different values", <<>>),
                   << << <<>>, result1.val >> >>,
                   << << <<>>, result2.val >> >> >>)

\* The explanation and the returned tuple after the loop.
Verdict(all_vars, loop) ==
    IF ~loop.ok THEN loop
    ELSE Return(<< loop.val.is_equiv,
                   IF loop.val.is_equiv
                   THEN Text("Yes - Both expressions have identical truth tables", <<>>)
                   ELSE Text("No - Different results when ",
                             DiffStr(loop.val.first_diff)),
                   << all_vars, loop.val.table1 >>,
                   << all_vars, loop.val.table2 >> >>)

CompareOver(expr1, expr2, all_vars) ==
    IF all_vars = <<>>
    THEN CompareNoVariables(Evaluate(expr1, <<>>), Evaluate(expr2, <<>>))
    ELSE Verdict(all_vars,
                 CompareRows(expr1, expr2, all_vars, Product(Len(all_vars)),
                             [ table1 |-> <<>>, table2 |-> <<>>,
                               is_equiv |-> TRUE, first_diff |-> <<>> ]))

\* The value returned: (is_equiv, explanation, table1, table2).
CheckEquivalence(expr1, expr2) == CompareOver(expr1, expr2, AllVars(expr1, expr2))

----------------------------------------------------------------------------
(* LogicChecker.format_truth_table                                         *)

\* sep.join(items)
RECURSIVE JoinWith(_, _)
JoinWith(items, sep) ==
    IF items = <<>> THEN <<>>
    ELSE Head(items) \o (IF Len(items) > 1 THEN sep ELSE <<>>)
         \o JoinWith(Tail(items), sep)

\* "variables, rows = truth_table_data" on a sequence of one element
UnpackError ==
    [ ok |-> FALSE,
      val |-> << "not enough values to unpack (expected 2, got 1)", <<>> >> ]

\* str(result)[0] of an evaluation result
FirstOfResult(v) ==
    IF v = "True" THEN "T" ELSE IF v = "False" THEN "F" ELSE "("

\* [str(values_dict[v])[0] for v in variables]
RECURSIVE RowValues(_, _)
RowValues(values_dict, names) ==
    IF names = <<>> THEN <<>>
    ELSE << << Head(StrBool(Lookup(values_dict, Head(names))) ) >> >>
         \o RowValues(values_dict, Tail(names))

\* " | ".join(row_values) + " | " + str(result)[0]
RowStr(names, row) ==
    JoinWith(RowValues(row[1], names), <<" ", "|", " ">>)
    \o <<" ", "|", " ">> \o << FirstOfResult(row[2]) >>

RECURSIVE RowLines(_, _)
RowLines(names, rows) ==
    IF rows = <<>> THEN <<>>
    ELSE << RowStr(names, Head(rows)) >> \o RowLines(names, Tail(rows))

\* " | ".join(variables) + " | Result"
Header(names) ==
    JoinWith([ i \in 1..Len(names) |-> << names[i] >> ], <<" ", "|", " ">>)
    \o <<" ", "|", " ", "R", "e", "s", "u", "l", "t">>

\* "-" * len(header)
Separator(header) == [ i \in 1..Len(header) |-> "-" ]

NoVariablesText == <<"N", "o", " ", "v", "a", "r", "i", "a", "b", "l", "e", "s">>

\* The lines of the table joined by newlines.
FormatLines(names, rows, header) ==
    JoinWith(<< header, Separator(header) >> \o RowLines(names, rows), << "\n" >>)

FormatTruthTable(truth_table_data) ==
    IF Len(truth_table_data) # 2 THEN UnpackError
    ELSE IF truth_table_data[1] = <<>> THEN Return(NoVariablesText)
    ELSE Return(FormatLines(truth_table_data[1], truth_table_data[2],
                            Header(truth_table_data[1])))

----------------------------------------------------------------------------
(* TreeChecker                                                             *)

\* The vertex names of the graphs, in alphabetical order.
VertexOrder == << "a", "b", "c", "d" >>

VertexNames == Range(VertexOrder)

\* sorted(S) of a set of vertex names
SortedVertices(S) == SelectSeq(VertexOrder, LAMBDA v : v \in S)

\* defaultdict(set) with no key written
NoAdjacency == [ v \in VertexNames |-> {} ]

\* A (bool, message) pair; the message is its fixed words and what was
\* formatted into them.
Outcome(b, fixed, formatted) == << b, Text(fixed, formatted) >>

\* Variant that looks for the edge in the orientation given only:
\* "if (v1, v2) in self.edges".
AddEdgeOutcomeOneOrientation(vs, es, v1, v2) ==
    IF v1 \notin vs THEN Outcome(FALSE, "Vertex '{v1}' not in graph", <<v1>>)
    ELSE IF v2 \notin vs THEN Outcome(FALSE, "Vertex '{v2}' not in graph", <<v2>>)
    ELSE IF <<v1, v2>> \in Range(es)
         THEN Outcome(FALSE, "Edge ({v1}, {v2}) already exists", <<v1, v2>>)
    ELSE Outcome(TRUE, "Added edge ({v1}, {v2})", <<v1, v2>>)

\* add_edge: the outcome, then the edges and the adjacency after the call.
AddEdgeOutcome(vs, es, v1, v2) ==
    IF v1 \notin vs THEN Outcome(FALSE, "Vertex '{v1}' not in graph", <<v1>>)
    ELSE IF v2 \notin vs THEN Outcome(FALSE, "Vertex '{v2}' not in graph", <<v2>>)
    ELSE IF <<v1, v2>> \in Range(es) \/ <<v2, v1>> \in Range(es)
         THEN Outcome(FALSE, "Edge ({v1}, {v2}) already exists", <<v1, v2>>)
    ELSE Outcome(TRUE, "Added edge ({v1}, {v2})", <<v1, v2>>)

EdgesAfterAdd(es, v1, v2, added) == IF added THEN Append(es, <<v1, v2>>) ELSE es

\* Variant that records one direction only: self.adjacency[v1].add(v2).
AdjacencyAfterAddOneWay(adj, v1, v2, added) ==
    IF added
    THEN [ v \in VertexNames |-> IF v = v1 THEN adj[v] \cup {v2} ELSE adj[v] ]
    ELSE adj

AdjacencyAfterAdd(adj, v1, v2, added) ==
    IF added
    THEN [ v \in VertexNames |->
             IF v = v1 /\ v = v2 THEN adj[v] \cup {v1}
             ELSE IF v = v1 THEN adj[v] \cup {v2}
             ELSE IF v = v2 THEN adj[v] \cup {v1}
             ELSE adj[v] ]
    ELSE adj

\* One turn of the loop of add_edges: results.append(self.add_edge(v1, v2)),
\* out being what add_edge returns on the edges of st.
AddEdgesStep(st, v1, v2, out) ==
    [ results |-> Append(st.results, out),
      edges |-> EdgesAfterAdd(st.edges, v1, v2, out[1]),
      adjacency |-> AdjacencyAfterAdd(st.adjacency, v1, v2, out[1]) ]

\* "for v1, v2 in edges" of add_edges over the pairs not yet taken.
RECURSIVE AddEdgesLoop(_, _, _)
AddEdgesLoop(vs, pairs, st) ==
    IF pairs = <<>> THEN st
    ELSE AddEdgesLoop(vs, Tail(pairs),
                      AddEdgesStep(st, Head(pairs)[1], Head(pairs)[2],
                                   AddEdgeOutcome(vs, st.edges, Head(pairs)[1],
                                                  Head(pairs)[2])))

\* add_edges: the list returned, the edges and the adjacency after the call.
AddEdges(vs, es, adj, pairs) ==
    AddEdgesLoop(vs, pairs, [ results |-> <<>>, edges |-> es, adjacency |-> adj ])

\* check_edge_count
CheckEdgeCount(vs, es) ==
    IF Len(es) = Cardinality(vs) - 1
    THEN Outcome(TRUE, "Correct: {e_count} edges for {v_count} vertices",
                 << Len(es), Cardinality(vs) >>)
    ELSE IF Len(es) < Cardinality(vs) - 1
    THEN Outcome(FALSE, "Too few edges: {e_count} < {expected} (graph is disconnected)",
                 << Len(es), Cardinality(vs) - 1 >>)
    ELSE Outcome(FALSE, "Too many edges: {e_count} > {expected} (contains cycle)",
                 << Len(es), Cardinality(vs) - 1 >>)

\* The parent of the vertex a search starts from.
None == "None"

RECURSIVE Dfs(_, _, _, _)
RECURSIVE DfsNeighbors(_, _, _, _, _)

\* Variant without the test "neighbor != parent": every visited neighbor
\* counts as a back edge.
DfsNeighborAnyVisited(adj, node, parent, rest, visited, neighbor) ==
    IF neighbor \notin visited
    THEN UNION { IF o[1] THEN { o } ELSE DfsNeighbors(adj, node, parent, rest, o[2]) :
                   o \in Dfs(adj, neighbor, node, visited) }
    ELSE { << TRUE, visited >> }

\* One turn of the loop of dfs, for the neighbor taken out of the set: the
\* outcomes <<found, visited>> of the rest of dfs(node, parent).
DfsNeighbor(adj, node, parent, rest, visited, neighbor) ==
    IF neighbor \notin visited
    THEN UNION { IF o[1] THEN { o } ELSE DfsNeighbors(adj, node, parent, rest, o[2]) :
                   o \in Dfs(adj, neighbor, node, visited) }
    ELSE IF neighbor # parent THEN { << TRUE, visited >> }
    ELSE DfsNeighbors(adj, node, parent, rest, visited)

\* "for neighbor in self.adjacency[node]" over the neighbors not yet taken;
\* a set is iterated in an order the program does not choose, so every
\* order is taken.
DfsNeighbors(adj, node, parent, remaining, visited) ==
    IF remaining = {} THEN { << FALSE, visited >> }
    ELSE UNION { DfsNeighbor(adj, node, parent, remaining \ {n}, visited, n) :
                   n \in remaining }

\* dfs(node, parent) of has_cycle: every outcome <<found, visited>>.
Dfs(adj, node, parent, visited) ==
    DfsNeighbors(adj, node, parent, adj[node], visited \cup {node})

\* "for start in self.vertices" of has_cycle over the vertices not yet
\* taken: every value the loop can end with.
RECURSIVE CycleFrom(_, _, _)
CycleFrom(adj, remaining, visited) ==
    IF remaining = {} THEN { FALSE }
    ELSE UNION { IF start \in visited THEN CycleFrom(adj, remaining \ {start}, visited)
                 ELSE UNION { IF o[1] THEN { TRUE }
                              ELSE CycleFrom(adj, remaining \ {start}, o[2]) :
                                o \in Dfs(adj, start, None, visited) } :
                   start \in remaining }

CycleOutcome(found) ==
    IF found THEN Outcome(TRUE, "Cycle detected", <<>>)
    ELSE Outcome(FALSE, "No cycles found", <<>>)

\* has_cycle: every (bool, message) it can return.
HasCycle(vs, adj) ==
    IF vs = {} THEN { Outcome(FALSE, "No vertices", <<>>) }
    ELSE { CycleOutcome(found) : found \in CycleFrom(adj, vs, {}) }

\* The while loop of is_connected: the vertices visited when the queue is
\* empty.  The order in which the neighbors of a node are queued does not
\* change the set visited; they are queued in alphabetical order.
RECURSIVE Bfs(_, _, _)
Bfs(adj, queue, visited) ==
    IF queue = <<>> THEN visited
    ELSE Bfs(adj, Tail(queue) \o SortedVertices(adj[Head(queue)] \ visited),
             visited \cup adj[Head(queue)])

ConnectedOutcome(vs, visited) ==
    IF Cardinality(visited) = Cardinality(vs)
    THEN Outcome(TRUE, "All vertices are reachable", <<>>)
    ELSE Outcome(FALSE, "Disconnected vertices: ",
                 JoinWith([ i \in 1..Len(SortedVertices(vs \ visited)) |->
                              << SortedVertices(vs \ visited)[i] >> ], <<",", " ">>))

\* is_connected: every (bool, message) it can return, start being
\* next(iter(self.vertices)), any of the vertices.
IsConnected(vs, adj) ==
    IF vs = {} THEN { Outcome(TRUE, "Empty graph is connected", <<>>) }
    ELSE { ConnectedOutcome(vs, Bfs(adj, << start >>, { start })) : start \in vs }

\* reasons of is_tree
Reasons(edge, cycle, conn) ==
    (IF ~edge[1] THEN << edge[2] >> ELSE <<>>)
    \o (IF cycle[1] THEN << Text("Contains cycle", <<>>) >> ELSE <<>>)
    \o (IF ~conn[1] THEN << Text("Graph is disconnected", <<>>) >> ELSE <<>>)

\* The tuple is_tree returns from the three checks.
TreeVerdict(vs, es, edge, cycle, conn) ==
    << edge[1] /\ ~cycle[1] /\ conn[1],
       IF edge[1] /\ ~cycle[1] /\ conn[1]
       THEN Text("Yes - This is a valid tree with {v} vertices and {e} edges",
                 << Cardinality(vs), Len(es) >>)
       ELSE Text("No - Not a tree. Issues: ", Reasons(edge, cycle, conn)),
       [ edge_count |-> edge[1], edge_message |-> edge[2],
         acyclic |-> ~cycle[1], cycle_message |-> cycle[2],
         connected |-> conn[1], connected_message |-> conn[2],
         vertex_count |-> Cardinality(vs), edge_list |-> es ] >>

\* is_tree: every tuple it can return.
IsTree(vs, es, adj) ==
    IF vs = {} THEN { << FALSE, Text("No vertices defined", <<>>), <<>> >> }
    ELSE { TreeVerdict(vs, es, CheckEdgeCount(vs, es), cycle, conn) :
             cycle \in HasCycle(vs, adj), conn \in IsConnected(vs, adj) }

\* A value that is a str in one branch and a list in another.
PyStr(s) == [ type |-> "str", val |-> s ]

PyList(l) == [ type |-> "list", val |-> l ]

\* defaultdict(list) with no key written
NoChildren == [ v \in VertexNames |-> <<>> ]

\* "for neighbor in neighbors" of get_traversals over the neighbors not yet
\* taken; st holds visited, children_map and queue.
RECURSIVE NeighborLoop(_, _, _)
NeighborLoop(node, neighbors, st) ==
    IF neighbors = <<>> THEN st
    ELSE IF Head(neighbors) \in st.visited THEN NeighborLoop(node, Tail(neighbors), st)
    ELSE NeighborLoop(node, Tail(neighbors),
                      [ visited |-> st.visited \cup { Head(neighbors) },
                        children_map |-> [ st.children_map EXCEPT
                                             ![node] = Append(@, Head(neighbors)) ],
                        queue |-> Append(st.queue, Head(neighbors)) ])

\* "while queue" of get_traversals: children_map when the queue is empty.
RECURSIVE ChildrenMapLoop(_, _)
ChildrenMapLoop(adj, st) ==
    IF st.queue = <<>> THEN st.children_map
    ELSE ChildrenMapLoop(adj, NeighborLoop(Head(st.queue),
                                           SortedVertices(adj[Head(st.queue)]),
                                           [ st EXCEPT !.queue = Tail(@) ]))

\* children_map of get_traversals for the given root
ChildrenMap(adj, root) ==
    ChildrenMapLoop(adj, [ visited |-> { root }, children_map |-> NoChildren,
                           queue |-> << root >> ])

\* dfs_pre(node): what it appends to pre_order_result.
RECURSIVE DfsPre(_, _)
RECURSIVE DfsPreEach(_, _)
DfsPre(children_map, node) == << node >> \o DfsPreEach(children_map, children_map[node])

\* Variant that takes the children from the last to the first.
DfsPreEachReversed(children_map, children) ==
    IF children = <<>> THEN <<>>
    ELSE DfsPreEach(children_map, Tail(children)) \o DfsPre(children_map, Head(children))

DfsPreEach(children_map, children) ==
    IF children = <<>> THEN <<>>
    ELSE DfsPre(children_map, Head(children)) \o DfsPreEach(children_map, Tail(children))

\* dfs_post(node): what it appends to post_order_result.
RECURSIVE DfsPost(_, _)
RECURSIVE DfsPostEach(_, _)
DfsPost(children_map, node) == DfsPostEach(children_map, children_map[node]) \o << node >>

DfsPostEach(children_map, children) ==
    IF children = <<>> THEN <<>>
    ELSE DfsPost(children_map, Head(children)) \o DfsPostEach(children_map, Tail(children))

\* in_order_result.append(node), skipped after "if not is_binary: return"
InAppend(st, node) ==
    IF st.is_binary THEN [ st EXCEPT !.in_order_result = Append(@, node) ] ELSE st

\* dfs_in(node) on st, which holds in_order_result and is_binary.
RECURSIVE DfsIn(_, _, _)
DfsInRight(children_map, st, right) ==
    IF st.is_binary THEN DfsIn(children_map, right, st) ELSE st

\* Variant that takes a lone child as the right child: the node first, then
\* the child.
DfsInLoneRight(children_map, node, st) ==
    IF Len(children_map[node]) > 2 THEN [ st EXCEPT !.is_binary = FALSE ]
    ELSE IF Len(children_map[node]) = 0 THEN [ st EXCEPT !.in_order_result = Append(@, node) ]
    ELSE IF Len(children_map[node]) = 1
         THEN DfsIn(children_map, children_map[node][1],
                    [ st EXCEPT !.in_order_result = Append(@, node) ])
    ELSE DfsInRight(children_map,
                    InAppend(DfsIn(children_map, children_map[node][1], st), node),
                    children_map[node][2])

DfsIn(children_map, node, st) ==
    IF Len(children_map[node]) > 2 THEN [ st EXCEPT !.is_binary = FALSE ]
    ELSE IF Len(children_map[node]) = 0 THEN [ st EXCEPT !.in_order_result = Append(@, node) ]
    ELSE IF Len(children_map[node]) = 1
         THEN InAppend(DfsIn(children_map, children_map[node][1], st), node)
    ELSE DfsInRight(children_map,
                    InAppend(DfsIn(children_map, children_map[node][1], st), node),
                    children_map[node][2])

NotBinary == "N/A (Not a Binary Tree)"

\* in_order_result if is_binary else "N/A (Not a Binary Tree)"
InOrderValue(st) ==
    IF st.is_binary THEN PyList(st.in_order_result) ELSE PyStr(NotBinary)

\* The dict get_traversals returns for a root that is a vertex.
TraversalsOver(children_map, root) ==
    [ pre_order |-> DfsPre(children_map, root),
      in_order |-> InOrderValue(DfsIn(children_map, root,
                                      [ in_order_result |-> <<>>, is_binary |-> TRUE ])),
      post_order |-> DfsPost(children_map, root) ]

\* get_traversals(root)
GetTraversals(vs, adj, root) ==
    IF root \notin vs
    THEN [ pre_order |-> <<>>, in_order |-> PyStr("Invalid root"), post_order |-> <<>> ]
    ELSE TraversalsOver(ChildrenMap(adj, root), root)

----------------------------------------------------------------------------
(* The expressions the operations are called with.                         *)

\* The variable letters of the generated expressions.
VarNames == SubSeq(<< "p", "q", "r", "s" >>, 1, NumVars)

\* Expression trees: <<"var", x>>, <<"not", t>>, <<"or", a, b>>,
\* <<"and", a, b>>, <<"grp", t>> (t in parentheses), <<"imp", a, b>>,
\* <<"iff", a, b>>.
Atoms == { <<"var", VarNames[i]>> : i \in 1..NumVars }

Lits == Atoms \cup { <<"not", a>> : a \in Atoms }

OrderedPairs == { ij \in (1..NumVars) \X (1..NumVars) : ij[1] < ij[2] }

Compounds ==
    UNION { { <<"or", <<"var", VarNames[ij[1]]>>, <<"var", VarNames[ij[2]]>> >>,
              <<"and", <<"var", VarNames[ij[1]]>>, <<"var", VarNames[ij[2]]>> >>,
              <<"or", <<"not", <<"var", VarNames[ij[1]]>> >>,
                      <<"var", VarNames[ij[2]]>> >> } : ij \in OrderedPairs }

\* The operands of an arrow: single variables, negations, v/^ compounds
\* and parenthesised groups.
Operands == Lits \cup Compounds \cup { <<"grp", c>> : c \in Compounds }

Arrows ==
    { <<k, a, b>> : k \in {"imp", "iff"}, a \in Operands, b \in Operands }

WellFormed == Operands \cup Arrows

\* The text of a tree, as the user writes it: 'x v y', 'x^y', '~x',
\* '(t)', 'a -> b', 'a <-> b'.
RECURSIVE Render(_)
Render(t) ==
    IF t[1] = "var" THEN << t[2] >>
    ELSE IF t[1] = "not" THEN <<"~">> \o Render(t[2])
    ELSE IF t[1] = "grp" THEN <<"(">> \o Render(t[2]) \o <<")">>
    ELSE IF t[1] = "or" THEN Render(t[2]) \o <<" ","v"," ">> \o Render(t[3])
    ELSE IF t[1] = "and" THEN Render(t[2]) \o <<"^">> \o Render(t[3])
    ELSE IF t[1] = "imp" THEN Render(t[2]) \o <<" ","-",">"," ">> \o Render(t[3])
    ELSE Render(t[2]) \o <<" ","<","-",">"," ">> \o Render(t[3])

\* The truth value of a tree under an assignment d, by the truth tables of
\* the connectives.
RECURSIVE Sem(_, _)
Sem(t, d) ==
    IF t[1] = "var" THEN Lookup(d, t[2])
    ELSE IF t[1] = "not" THEN ~Sem(t[2], d)
    ELSE IF t[1] = "grp" THEN Sem(t[2], d)
    ELSE IF t[1] = "or" THEN Sem(t[2], d) \/ Sem(t[3], d)
    ELSE IF t[1] = "and" THEN Sem(t[2], d) /\ Sem(t[3], d)
    ELSE IF t[1] = "imp" THEN (~Sem(t[2], d)) \/ Sem(t[3], d)
    ELSE Sem(t[2], d) = Sem(t[3], d)

WellFormedTexts == { Render(t) : t \in WellFormed }

\* Texts outside the generated ones: written without blanks, in upper
\* case, with the letter v as a variable, without variables, unbalanced.
OtherTexts ==
    { <<"p","-",">","q">>, <<"p","<","-",">","q">>, <<"p","^","q">>,
      <<"P"," ","v"," ","Q">>, <<"v","^","p">>, <<"p","v","q">>,
      <<"~","(",")">>, <<"(",")","^","(",")">>, <<"(","p">>, <<"p",")">>,
      <<"(","P","-",">","q">>, <<>> }

\* Every assignment of the variable letters, as a dict in sorted order.
Assignments == { Zip(VarNames, tup) : tup \in Range(Product(NumVars)) }

\* The characters of the raw texts handed to _extract_variables.
RawChars == { "p", "v", "a", "P", "1", "_", " ", "~" }

RECURSIVE TextsOfLength(_)
TextsOfLength(n) ==
    IF n = 0 THEN { <<>> }
    ELSE { Append(s, c) : s \in TextsOfLength(n - 1), c \in RawChars }

RawTexts == UNION { TextsOfLength(n) : n \in 0..MaxLen }

\* Groups inside groups: '((x -> y) v z)', alone and as an operand of an
\* arrow.
NestedTrees ==
    { <<"grp", <<"or", <<"grp", <<k, a, b>> >>, x>> >> :
        k \in {"imp", "iff"}, a \in Atoms, b \in Atoms, x \in Atoms }

DeepArrows ==
    { <<k, n, x>> : k \in {"imp", "iff"}, n \in NestedTrees, x \in Atoms }
    \cup { <<k, x, n>> : k \in {"imp", "iff"}, n \in NestedTrees, x \in Atoms }

ParenTrees ==
    { t \in Arrows : t[2][1] = "grp" \/ t[3][1] = "grp" }
    \cup NestedTrees \cup DeepArrows

DeleteAt(s, i) == SubSeq(s, 1, i - 1) \o SubSeq(s, i + 1, Len(s))

\* The texts of the trees with one parenthesis left out.
DamagedOf(s) == { DeleteAt(s, i) : i \in { j \in 1..Len(s) : s[j] \in {"(", ")"} } }

DamagedTexts == UNION { DamagedOf(Render(t)) : t \in ParenTrees }

\* Every text of at most MaxTokens tokens out of ( ) p ~ ->.
ParenTokens == { <<"(">>, <<")">>, <<"p">>, <<"~">>, <<"-", ">">> }

RECURSIVE TextsOfTokens(_)
TextsOfTokens(n) ==
    IF n = 0 THEN { <<>> }
    ELSE { s \o t : s \in TextsOfTokens(n - 1), t \in ParenTokens }

TokenTexts == UNION { TextsOfTokens(n) : n \in 0..MaxTokens }

ParenTexts == DamagedTexts \cup TokenTexts

\* Expressions of ~, ^, v and groups, written with no more parentheses
\* than the precedence NOT > AND > OR needs.
PrecedenceTrees ==
    UNION { { <<"or", x, y>>, <<"and", x, y>>,
              <<"not", <<"not", x>> >>,
              <<"not", <<"grp", <<"or", x, y>> >> >>,
              <<"not", <<"grp", <<"and", x, y>> >> >> } : x \in Lits, y \in Lits }
    \cup UNION { { <<"or", x, <<"and", y, z>> >>,
                   <<"or", <<"and", x, y>>, z>>,
                   <<"and", <<"and", x, y>>, z>>,
                   <<"or", <<"or", x, y>>, z>>,
                   <<"and", <<"grp", <<"or", x, y>> >>, z>>,
                   <<"and", x, <<"grp", <<"or", y, z>> >> >>,
                   <<"or", <<"not", <<"grp", <<"and", x, y>> >> >>, z>> } :
                 x \in Lits, y \in Lits, z \in Atoms }

\* The text of a tree with blanks around every binary operator:
\* 'x v y', 'x ^ y'.
RECURSIVE RenderSpaced(_)
RenderSpaced(t) ==
    IF t[1] = "var" THEN << t[2] >>
    ELSE IF t[1] = "not" THEN <<"~">> \o RenderSpaced(t[2])
    ELSE IF t[1] = "grp" THEN <<"(">> \o RenderSpaced(t[2]) \o <<")">>
    ELSE IF t[1] = "or" THEN RenderSpaced(t[2]) \o <<" ","v"," ">> \o RenderSpaced(t[3])
    ELSE RenderSpaced(t[2]) \o <<" ","^"," ">> \o RenderSpaced(t[3])

PrecedenceTexts ==
    { Render(t) : t \in PrecedenceTrees } \cup { RenderSpaced(t) : t \in PrecedenceTrees }

EvaluateTexts == WellFormedTexts \cup OtherTexts \cup PrecedenceTexts

TableTexts ==
    WellFormedTexts \cup OtherTexts \cup ParenTexts
    \cup { <<"p", " ", "v", " ", "~", "p">> }

EquivTexts == { Render(t) : t \in Operands } \cup OtherTexts

\* The tables handed to format_truth_table: those generate_truth_table and
\* check_equivalence return.
TablesOf(r) == IF r.ok THEN { r.val } ELSE {}

EquivTablesOf(r) == IF r.ok THEN { r.val[3], r.val[4] } ELSE {}

FormatInputs ==
    UNION { TablesOf(GenerateTruthTable(e)) : e \in EquivTexts }
    \cup UNION { EquivTablesOf(CheckEquivalence(e, o)) :
                   e \in EquivTexts, o \in { <<"p">>, <<"~", "(", ")">> } }

\* The letters of the identities, and the two sides of each identity:
\* 'x<->y' and '(x->y)^(y->x)', 'x v y' and 'y v x'.
IdentityLetters == { "p", "q", "r", "s" }

DistinctLetters == { xy \in IdentityLetters \X IdentityLetters : xy[1] # xy[2] }

BiconditionalOf(x, y) == << x, "<", "-", ">", y >>

DoubleImplicationOf(x, y) ==
    << "(", x, "-", ">", y, ")", "^", "(", y, "-", ">", x, ")" >>

DisjunctionOf(x, y) == << x, " ", "v", " ", y >>

IdentityPairs ==
    { << BiconditionalOf(xy[1], xy[2]), DoubleImplicationOf(xy[1], xy[2]) >> :
        xy \in DistinctLetters }
    \cup { << DisjunctionOf(xy[1], xy[2]), DisjunctionOf(xy[2], xy[1]) >> :
             xy \in DistinctLetters }

\* Expressions that are true under every assignment: 'x v ~x', 'x -> x',
\* 'x <-> x', '~x <-> ~x', 'x^y -> x', 'x -> x v y'.
TautologyTrees ==
    UNION { { <<"or", x, <<"not", x>> >>, <<"imp", x, x>>, <<"iff", x, x>>,
              <<"iff", <<"not", x>>, <<"not", x>> >> } : x \in Atoms }
    \cup UNION { { <<"imp", <<"and", x, y>>, x>>, <<"imp", x, <<"or", x, y>> >> } :
                   x \in Atoms, y \in Atoms }

TautologyPairs == { << Render(t), Render(u) >> : t \in TautologyTrees, u \in TautologyTrees }

\* The text of a tree with every compound in its own parentheses:
\* '(~x)', '(x v y)', '(a -> b)'.
RECURSIVE RenderFull(_)
RenderFull(t) ==
    IF t[1] = "var" THEN << t[2] >>
    ELSE IF t[1] = "not" THEN <<"(", "~">> \o RenderFull(t[2]) \o <<")">>
    ELSE IF t[1] = "grp" THEN RenderFull(t[2])
    ELSE IF t[1] = "or"
         THEN <<"(">> \o RenderFull(t[2]) \o <<" ","v"," ">> \o RenderFull(t[3]) \o <<")">>
    ELSE IF t[1] = "and"
         THEN <<"(">> \o RenderFull(t[2]) \o <<" ","^"," ">> \o RenderFull(t[3]) \o <<")">>
    ELSE IF t[1] = "imp"
         THEN <<"(">> \o RenderFull(t[2]) \o <<" ","-",">"," ">> \o RenderFull(t[3]) \o <<")">>
    ELSE <<"(">> \o RenderFull(t[2]) \o <<" ","<","-",">"," ">> \o RenderFull(t[3]) \o <<")">>

\* Fully parenthesised expressions.
FullTexts == { RenderFull(t) : t \in WellFormed \cup ParenTrees }

\* Expressions as written, the special texts and the texts of tokens.
WrittenTexts == WellFormedTexts \cup OtherTexts \cup TokenTexts

\* What _transform_logic returns for the texts of S.
OutputsOf(S) == { TransformLogic(e).s : e \in { x \in S : TransformLogic(x).ok } }

\* The texts _transform_logic is called with: fully parenthesised
\* expressions, the special texts, the texts of tokens, and what the method
\* returned for them.
TransformTexts ==
    (FullTexts \cup OtherTexts \cup TokenTexts)
    \cup OutputsOf(FullTexts \cup OtherTexts \cup TokenTexts)

\* '(' + e + ')'
Enclosed(e) == << "(" >> \o e \o << ")" >>

\* Two groups side by side: the first '(' does not match the last ')'.
TwoGroups == << "(", "p", ")", " ", "^", " ", "(", "q", ")" >>

\* The parentheses of s from position i on are balanced, d being the depth
\* reached so far: the depth never falls below 0 and ends at 0.
RECURSIVE BalancedFrom(_, _, _)
BalancedFrom(s, i, d) ==
    IF d < 0 THEN FALSE
    ELSE IF i > Len(s) THEN d = 0
    ELSE BalancedFrom(s, i + 1, IF s[i] = "(" THEN d + 1
                                ELSE IF s[i] = ")" THEN d - 1 ELSE d)

Balanced(s) == BalancedFrom(s, 1, 0)

\* The written texts whose parentheses are balanced.
BalancedTexts == { e \in WrittenTexts : Balanced(e) }

\* An expression and the same in one or two pairs of parentheses, and the
\* two groups with the expression they stand for.
EnclosedPairs ==
    { << e, Enclosed(e) >> : e \in BalancedTexts }
    \cup { << e, Enclosed(Enclosed(e)) >> : e \in BalancedTexts \cap (OtherTexts \cup TokenTexts) }
    \cup { << TwoGroups, <<"p", "^", "q">> >>, << TwoGroups, Enclosed(TwoGroups) >> }

\* The pairs of texts check_equivalence is called with.
EquivPairs ==
    (EquivTexts \X EquivTexts)
    \cup IdentityPairs
    \cup TautologyPairs
    \cup { <<e, <<"p">> >> : e \in ParenTexts }
    \cup { << <<"p">>, e >> : e \in ParenTexts }

----------------------------------------------------------------------------
(* The checker and the calls made on it.                                   *)

\* The calls that can be made on a checker, with their arguments.
Requests ==
    { << "_extract_variables", << e >> >> : e \in RawTexts \cup WellFormedTexts \cup OtherTexts }
    \cup { << "_evaluate", << e, d >> >> : e \in EvaluateTexts, d \in Assignments }
    \cup { << "generate_truth_table", << e >> >> : e \in TableTexts }
    \cup { << "check_equivalence", e >> : e \in EquivPairs }
    \cup { << "format_truth_table", << t >> >> : t \in FormatInputs }

\* The calls about parentheses and about the rewritten text:
\* check_equivalence of an expression and the same in parentheses, and
\* _transform_logic.
RewriteRequests ==
    { << "check_equivalence", e >> : e \in EnclosedPairs }
    \cup { << "_transform_logic", << e >> >> : e \in TransformTexts }

\* The names of the RelationChecker instances.
Instances == { "first", "second" }

\* No RelationChecker has been built.
NoRelationChecker ==
    /\ set_a = <<>>
    /\ relation = <<>>
    /\ cache = <<>>

\* A checker as LogicChecker.__init__ leaves it, and one call made on it
\* that has not run yet.
Init ==
    /\ variables = {}
    /\ \E r \in Requests : call = r[1] /\ args = r[2]
    /\ pc = "called"
    /\ ret = Return(<<>>)
    /\ history = {}
    /\ vertices = {} /\ edges = <<>> /\ adjacency = NoAdjacency
    /\ frames = <<>> /\ NoRelationChecker

\* Variant that keeps what was found: self.variables |= variables.
SelfVariablesStored(self_variables, found) == self_variables \cup found

\* self.variables after _extract_variables: the method binds the local name
\* variables and leaves the attribute alone.
SelfVariablesAfter(self_variables, found) == self_variables

ExtractVariablesCall ==
    /\ pc = "called" /\ call = "_extract_variables"
    /\ ret' = Return(ExtractVariables(args[1]))
    /\ variables' = SelfVariablesAfter(variables, ExtractVariables(args[1]))
    /\ pc' = "returned"
    /\ UNCHANGED << call, args, history, treeVars, frames, relationVars >>

EvaluateCall ==
    /\ pc = "called" /\ call = "_evaluate"
    /\ ret' = Evaluate(args[1], args[2])
    /\ pc' = "returned"
    /\ UNCHANGED << variables, call, args, history, treeVars, frames, relationVars >>

GenerateTruthTableCall ==
    /\ pc = "called" /\ call = "generate_truth_table"
    /\ ret' = GenerateTruthTable(args[1])
    /\ pc' = "returned"
    /\ UNCHANGED << variables, call, args, history, treeVars, frames, relationVars >>

CheckEquivalenceCall ==
    /\ pc = "called" /\ call = "check_equivalence"
    /\ ret' = CheckEquivalence(args[1], args[2])
    /\ pc' = "returned"
    /\ UNCHANGED << variables, call, args, history, treeVars, frames, relationVars >>

FormatTruthTableCall ==
    /\ pc = "called" /\ call = "format_truth_table"
    /\ ret' = FormatTruthTable(args[1])
    /\ pc' = "returned"
    /\ UNCHANGED << variables, call, args, history, treeVars, frames, relationVars >>

TransformLogicCall ==
    /\ pc = "called" /\ call = "_transform_logic"
    /\ ret' = TransformOutcome(TransformLogic(args[1]))
    /\ pc' = "returned"
    /\ UNCHANGED << variables, call, args, history, treeVars, frames, relationVars >>

Next ==
    \/ ExtractVariablesCall
    \/ EvaluateCall
    \/ GenerateTruthTableCall
    \/ CheckEquivalenceCall
    \/ FormatTruthTableCall

Spec == Init /\ [][Next]_vars

\* A checker as LogicChecker.__init__ leaves it, and one of the calls
\* about parentheses and rewriting that has not run yet.
RewriteInit ==
    /\ variables = {}
    /\ \E r \in RewriteRequests : call = r[1] /\ args = r[2]
    /\ pc = "called"
    /\ ret = Return(<<>>)
    /\ history = {}
    /\ vertices = {} /\ edges = <<>> /\ adjacency = NoAdjacency
    /\ frames = <<>> /\ NoRelationChecker

RewriteNext ==
    \/ TransformLogicCall
    \/ CheckEquivalenceCall

RewriteSpec == RewriteInit /\ [][RewriteNext]_vars

----------------------------------------------------------------------------
(* Several calls, one after the other, on one checker.                     *)

\* The calls of a session: every method, with calls that raise.
SessionRequests ==
    { << "_extract_variables", << <<"p", " ", "v", " ", "q">> >> >>,
      << "_extract_variables", << <<"P">> >> >>,
      << "generate_truth_table", << <<"p", "^", "q">> >> >>,
      << "generate_truth_table", << <<"(", "p">> >> >>,
      << "generate_truth_table", << <<"~", "(", ")">> >> >>,
      << "_evaluate", << <<"p", "^", "q">>, Zip(<<"p", "q">>, <<TRUE, FALSE>>) >> >>,
      << "check_equivalence", << <<"p", "^", "q">>, <<"p", " ", "v", " ", "q">> >> >>,
      << "check_equivalence", << <<"(", "p">>, <<"p">> >> >>,
      << "format_truth_table", << GenerateTruthTable(<<"p", "^", "q">>).val >> >>,
      << "format_truth_table",
         << CheckEquivalence(<<"~", "(", ")">>, <<"~", "(", ")">>).val[3] >> >> }

SessionInit ==
    /\ variables = {}
    /\ \E r \in SessionRequests : call = r[1] /\ args = r[2]
    /\ pc = "called"
    /\ ret = Return(<<>>)
    /\ history = {}
    /\ vertices = {} /\ edges = <<>> /\ adjacency = NoAdjacency
    /\ frames = <<>> /\ NoRelationChecker

\* The caller notes the outcome of the call that returned and makes the
\* next call on the same checker.
NextCall ==
    /\ pc = "returned"
    /\ \E r \in SessionRequests : call' = r[1] /\ args' = r[2]
    /\ pc' = "called"
    /\ history' = history \cup { << call, args, ret >> }
    /\ UNCHANGED << variables, ret, treeVars, frames, relationVars >>

SessionNext == Next \/ NextCall

SessionSpec == SessionInit /\ [][SessionNext]_vars

----------------------------------------------------------------------------
(* One call of _transform_logic, step by step: the activations of the      *)
(* method, the loop that strips the outer parentheses, the calls on the    *)
(* two sides of an arrow and the loop of step 4.                           *)

\* Variant that takes nothing away: expr = expr.strip()
StripNoPair(expr) == Strip(expr)

\* expr = expr[1:-1].strip()
StripOnePair(expr) == Strip(SubSeq(expr, 2, Len(expr) - 1))

\* The activation made by the call self._transform_logic(text), after
\* expr = expr.strip().  step: "strip" in the while loop of step 1, "left"
\* and "right" while the call on that side of the arrow op runs, "join"
\* when both have returned, "loop" in step 4 at position i.  left: what the
\* call on the left returned.  result: the list result of step 4, joined,
\* or the text to return.
Entered(text) ==
    [ text |-> text, expr |-> Strip(text), step |-> "strip", i |-> 0,
      op |-> <<>>, left |-> <<>>, result |-> <<>> ]

\* f"({left} == {right})" for '<->', f"(not {left} or {right})" for '->'
JoinedText(op, left, right) ==
    IF op = Biconditional THEN BiconditionalText(left, right)
    ELSE ImplicationText(left, right)

\* The activation caller goes on with the text v its callee returned: it
\* calls itself on the right of the arrow, or has both sides, or appends
\* the group to result.
Resume(caller, v) ==
    IF caller.step = "left"
    THEN << Entered(SubSeq(caller.expr, caller.i, Len(caller.expr))),
            [ caller EXCEPT !.step = "right", !.left = v ] >>
    ELSE IF caller.step = "right"
    THEN << [ caller EXCEPT !.step = "join",
                            !.result = JoinedText(caller.op, caller.left, v) ] >>
    ELSE << [ caller EXCEPT !.result = @ \o <<"(">> \o v \o <<")">> ] >>

\* The running activation goes on in its own frame.
GoOn(now) ==
    /\ frames' = << now >> \o Tail(frames)
    /\ UNCHANGED << pc, ret >>
    /\ UNCHANGED << variables, call, args, history, treeVars, relationVars >>

\* The running activation calls itself on text, its own frame being now.
CallSelf(now, text) ==
    /\ frames' = << Entered(text), now >> \o Tail(frames)
    /\ UNCHANGED << pc, ret >>
    /\ UNCHANGED << variables, call, args, history, treeVars, relationVars >>

\* The running activation returns v: to the activation that called it, or
\* to the caller of the method.
ReturnText(v) ==
    /\ IF Tail(frames) = <<>>
       THEN frames' = <<>> /\ pc' = "returned" /\ ret' = Return(v)
       ELSE /\ frames' = Resume(frames[2], v) \o Tail(Tail(frames))
            /\ UNCHANGED << pc, ret >>
    /\ UNCHANGED << variables, call, args, history, treeVars, relationVars >>

Running(step) == pc = "called" /\ frames # <<>> /\ Head(frames).step = step

TransformInit ==
    /\ \E e \in TransformTexts : args = << e >> /\ frames = << Entered(e) >>
    /\ call = "_transform_logic"
    /\ pc = "called"
    /\ ret = Return(<<>>)
    /\ variables = {} /\ history = {}
    /\ vertices = {} /\ edges = <<>> /\ adjacency = NoAdjacency
    /\ NoRelationChecker

\* while is_fully_enclosed(expr): expr = expr[1:-1].strip()
StripPair ==
    /\ Running("strip") /\ is_fully_enclosed(Head(frames).expr)
    /\ GoOn([ Head(frames) EXCEPT !.expr = StripOnePair(@) ])

\* The activation splits expr at idx, op being the arrow found there, and
\* calls itself on the left.
SplitAt(op, idx) ==
    CallSelf([ Head(frames) EXCEPT !.step = "left", !.op = op, !.i = idx + Len(op) ],
             SubSeq(Head(frames).expr, 1, idx - 1))

\* idx != -1 for '<->': self._transform_logic(left)
CallLeftOfBiconditional ==
    /\ Running("strip") /\ ~is_fully_enclosed(Head(frames).expr)
    /\ find_operator(Head(frames).expr, Biconditional) # 0
    /\ SplitAt(Biconditional, find_operator(Head(frames).expr, Biconditional))

\* idx != -1 for '->': self._transform_logic(left)
CallLeftOfImplication ==
    /\ Running("strip") /\ ~is_fully_enclosed(Head(frames).expr)
    /\ find_operator(Head(frames).expr, Biconditional) = 0
    /\ find_operator(Head(frames).expr, Implication) # 0
    /\ SplitAt(Implication, find_operator(Head(frames).expr, Implication))

\* Both sides have returned: return f"(...)"
ReturnJoined ==
    /\ Running("join")
    /\ ReturnText(Head(frames).result)

\* No '<->' and no '->' at depth 0: step 4 starts, i = 0 in the code.
StartLoop ==
    /\ Running("strip") /\ ~is_fully_enclosed(Head(frames).expr)
    /\ find_operator(Head(frames).expr, Biconditional) = 0
    /\ find_operator(Head(frames).expr, Implication) = 0
    /\ GoOn([ Head(frames) EXCEPT !.step = "loop", !.i = 1 ])

\* result.append(expr[i]); i += 1
CopyChar ==
    /\ Running("loop") /\ Head(frames).i <= Len(Head(frames).expr)
    /\ Head(frames).expr[Head(frames).i] # "("
    /\ GoOn([ Head(frames) EXCEPT !.result = Append(@, Head(frames).expr[Head(frames).i]),
                                  !.i = @ + 1 ])

\* The group opening at i closes at end: self._transform_logic(inner),
\* then i = end + 1
CallInnerTo(end) ==
    CallSelf([ Head(frames) EXCEPT !.i = end + 1 ],
             SubSeq(Head(frames).expr, Head(frames).i + 1, end - 1))

CallInner ==
    /\ Running("loop") /\ Head(frames).i <= Len(Head(frames).expr)
    /\ Head(frames).expr[Head(frames).i] = "("
    /\ find_matching_paren(Head(frames).expr, Head(frames).i) # 0
    /\ CallInnerTo(find_matching_paren(Head(frames).expr, Head(frames).i))

\* end == -1: raise ValueError("Unbalanced parentheses"), which no
\* activation catches.
RaiseUnbalanced ==
    /\ Running("loop") /\ Head(frames).i <= Len(Head(frames).expr)
    /\ Head(frames).expr[Head(frames).i] = "("
    /\ find_matching_paren(Head(frames).expr, Head(frames).i) = 0
    /\ frames' = <<>>
    /\ pc' = "returned"
    /\ ret' = UnbalancedParentheses
    /\ UNCHANGED << variables, call, args, history, treeVars, relationVars >>

\* i == len(expr): return "".join(result)
ReturnJoinedResult ==
    /\ Running("loop") /\ Head(frames).i > Len(Head(frames).expr)
    /\ ReturnText(Head(frames).result)

TransformNext ==
    \/ StripPair
    \/ CallLeftOfBiconditional
    \/ CallLeftOfImplication
    \/ ReturnJoined
    \/ StartLoop
    \/ CopyChar
    \/ CallInner
    \/ RaiseUnbalanced
    \/ ReturnJoinedResult

\* The interpreter runs the call to its end: a step that can be taken is
\* taken.
TransformSpec == TransformInit /\ [][TransformNext]_vars /\ WF_vars(TransformNext)

----------------------------------------------------------------------------
(* A TreeChecker and the calls made on it, one after the other.            *)

\* TreeChecker(vertices): any list of names, none for no argument.
TreeInit ==
    /\ \E vs \in SUBSET VertexNames : vertices = vs /\ args = << vs >>
    /\ edges = <<>>
    /\ adjacency = NoAdjacency
    /\ call = "__init__"
    /\ pc = "returned"
    /\ ret = Return(<<>>)
    /\ variables = {} /\ history = {}
    /\ frames = <<>> /\ NoRelationChecker

SetVertices ==
    /\ \E vs \in SUBSET VertexNames : vertices' = vs /\ args' = << vs >>
    /\ edges' = <<>>
    /\ adjacency' = NoAdjacency
    /\ call' = "set_vertices"
    /\ ret' = Return(<<>>)
    /\ UNCHANGED << pc, logicVars, frames, relationVars >>

AddEdge ==
    /\ Len(edges) < MaxEdges
    /\ \E v1 \in VertexNames, v2 \in VertexNames :
          /\ args' = << v1, v2 >>
          /\ ret' = Return(AddEdgeOutcome(vertices, edges, v1, v2))
          /\ edges' = EdgesAfterAdd(edges, v1, v2,
                                    AddEdgeOutcome(vertices, edges, v1, v2)[1])
          /\ adjacency' = AdjacencyAfterAdd(adjacency, v1, v2,
                                            AddEdgeOutcome(vertices, edges, v1, v2)[1])
    /\ call' = "add_edge"
    /\ UNCHANGED << vertices, pc, logicVars, frames, relationVars >>

\* The pairs the lists given to add_edges are made of: an edge in its two
\* orientations and a self-loop.
BatchPairs == { <<"a", "b">>, <<"b", "a">>, <<"c", "c">> }

\* The lists given to add_edges: no pair, one pair, two pairs.
EdgeBatches ==
    { <<>> } \cup { << e >> : e \in BatchPairs }
    \cup { << e, f >> : e \in BatchPairs, f \in BatchPairs }

AddEdgesCall ==
    /\ \E pairs \in EdgeBatches :
          /\ Len(edges) + Len(pairs) <= MaxEdges
          /\ args' = << pairs >>
          /\ ret' = Return(AddEdges(vertices, edges, adjacency, pairs).results)
          /\ edges' = AddEdges(vertices, edges, adjacency, pairs).edges
          /\ adjacency' = AddEdges(vertices, edges, adjacency, pairs).adjacency
    /\ call' = "add_edges"
    /\ UNCHANGED << vertices, pc, logicVars, frames, relationVars >>

CheckEdgeCountCall ==
    /\ call' = "check_edge_count" /\ args' = <<>>
    /\ ret' = Return(CheckEdgeCount(vertices, edges))
    /\ UNCHANGED << treeVars, pc, logicVars, frames, relationVars >>

HasCycleCall ==
    /\ call' = "has_cycle" /\ args' = <<>>
    /\ \E o \in HasCycle(vertices, adjacency) : ret' = Return(o)
    /\ UNCHANGED << treeVars, pc, logicVars, frames, relationVars >>

IsConnectedCall ==
    /\ call' = "is_connected" /\ args' = <<>>
    /\ \E o \in IsConnected(vertices, adjacency) : ret' = Return(o)
    /\ UNCHANGED << treeVars, pc, logicVars, frames, relationVars >>

IsTreeCall ==
    /\ call' = "is_tree" /\ args' = <<>>
    /\ \E o \in IsTree(vertices, edges, adjacency) : ret' = Return(o)
    /\ UNCHANGED << treeVars, pc, logicVars, frames, relationVars >>

GetTraversalsCall ==
    /\ call' = "get_traversals"
    /\ \E root \in VertexNames :
          /\ args' = << root >>
          /\ ret' = Return(GetTraversals(vertices, adjacency, root))
    /\ UNCHANGED << treeVars, pc, logicVars, frames, relationVars >>

TreeNext ==
    \/ SetVertices
    \/ AddEdge
    \/ AddEdgesCall
    \/ CheckEdgeCountCall
    \/ HasCycleCall
    \/ IsConnectedCall
    \/ IsTreeCall
    \/ GetTraversalsCall

TreeSpec == TreeInit /\ [][TreeNext]_vars

----------------------------------------------------------------------------
(* RelationChecker.  A Python set is its elements in the order in which    *)
(* iteration visits them, an order Python fixes when the set is built.     *)
(* set_a, relation and cache hold self.set_a, self.relation and            *)
(* self._cache of every instance that was built.                          *)

\* f'({a},{b})'
PairText(a, b) == << "(", a, ",", b, ")" >>

\* ', '.join(items)
CommaJoin(items) == JoinWith(items, << ", " >>)

\* missing of check_reflexive
Missing(A, R) == SelectSeq(A, LAMBDA elem : << elem, elem >> \notin Range(R))

ReflexiveOutcome(missing) ==
    IF Len(missing) = 0
    THEN Outcome(TRUE, "Yes - All elements have self-loops", <<>>)
    ELSE Outcome(FALSE, "No - Missing pairs: ",
                 CommaJoin([ k \in 1..Len(missing) |-> PairText(missing[k], missing[k]) ]))

CheckReflexive(A, R) == ReflexiveOutcome(Missing(A, R))

\* violations of check_symmetric
NoReverse(R) ==
    SelectSeq(R, LAMBDA p : p[1] # p[2] /\ << p[2], p[1] >> \notin Range(R))

SymmetricOutcome(violations) ==
    IF Len(violations) = 0
    THEN Outcome(TRUE, "Yes - All pairs have reverse pairs", <<>>)
    ELSE Outcome(FALSE, "No - Missing reverse pairs: ",
                 CommaJoin([ k \in 1..Len(violations) |->
                               PairText(violations[k][2], violations[k][1]) ]))

CheckSymmetric(R) == SymmetricOutcome(NoReverse(R))

\* violations of check_antisymmetric
WithReverse(R) ==
    SelectSeq(R, LAMBDA p : p[1] # p[2] /\ << p[2], p[1] >> \in Range(R))

\* violations[:3]
FirstThree(violations) ==
    IF Len(violations) <= 3 THEN violations ELSE SubSeq(violations, 1, 3)

\* The explanation of check_antisymmetric ends in " with reverses".
AntisymmetricOutcome(violations) ==
    IF Len(violations) = 0
    THEN Outcome(TRUE, "Yes - No distinct pairs with reverse pairs", <<>>)
    ELSE Outcome(FALSE, "No - Found pairs: {} with reverses",
                 CommaJoin([ k \in 1..Len(FirstThree(violations)) |->
                               PairText(violations[k][1], violations[k][2]) ]))

CheckAntisymmetric(R) == AntisymmetricOutcome(WithReverse(R))

\* "for b2, c in self.relation" for the pair p of the outer loop
Uncompleted(R, p) ==
    [ k \in 1..Len(SelectSeq(R, LAMBDA q : p[2] = q[1] /\ << p[1], q[2] >> \notin Range(R))) |->
        << p[1], p[2],
           SelectSeq(R, LAMBDA q : p[2] = q[1] /\ << p[1], q[2] >> \notin Range(R))[k][2] >> ]

\* violations of check_transitive, the outer loop from pair i on
RECURSIVE UncompletedFrom(_, _)
UncompletedFrom(R, i) ==
    IF i > Len(R) THEN <<>>
    ELSE Uncompleted(R, R[i]) \o UncompletedFrom(R, i + 1)

TransitiveOutcome(violations) ==
    IF Len(violations) = 0
    THEN Outcome(TRUE, "Yes - All transitive pairs exist", <<>>)
    ELSE Outcome(FALSE, "No - Missing: ",
                 CommaJoin([ k \in 1..Len(FirstThree(violations)) |->
                               PairText(violations[k][1], violations[k][3]) ]))

CheckTransitive(R) == TransitiveOutcome(UncompletedFrom(R, 1))

\* The keys of self._cache
Properties == { "reflexive", "symmetric", "antisymmetric", "transitive" }

\* What check_<key> computes when the cache does not hold key.
Computed(key, A, R) ==
    IF key = "reflexive" THEN CheckReflexive(A, R)
    ELSE IF key = "symmetric" THEN CheckSymmetric(R)
    ELSE IF key = "antisymmetric" THEN CheckAntisymmetric(R)
    ELSE CheckTransitive(R)

\* What check_<key> of instance i returns, the caches being c.
Check(c, i, key) ==
    IF key \in DOMAIN c[i] THEN c[i][key] ELSE Computed(key, set_a[i], relation[i])

\* Variant with one _cache for the class: every instance reads what any
\* instance wrote.
CacheAfterShared(c, i, key) ==
    [ j \in DOMAIN c |-> (key :> Check(c, i, key)) @@ c[j] ]

\* self._cache[key] = result, if the cache of i did not hold key
CacheAfter(c, i, key) ==
    [ c EXCEPT ![i] = (key :> Check(c, i, key)) @@ @ ]

\* missing of is_equivalence_relation
MissingProperties(ref, sym, trans) ==
    (IF ~ref THEN << << "reflexive" >> >> ELSE <<>>)
    \o (IF ~sym THEN << << "symmetric" >> >> ELSE <<>>)
    \o (IF ~trans THEN << << "transitive" >> >> ELSE <<>>)

\* Variant that does not ask for transitivity.
EquivalenceVerdictOfTwo(ref, sym, trans) ==
    IF ref /\ sym
    THEN Outcome(TRUE, "Yes - The relation is an equivalence relation (reflexive, symmetric, and transitive)", <<>>)
    ELSE Outcome(FALSE, "No - Missing properties: ",
                 CommaJoin(MissingProperties(ref, sym, TRUE)))

EquivalenceVerdict(ref, sym, trans) ==
    IF ref /\ sym /\ trans
    THEN Outcome(TRUE, "Yes - The relation is an equivalence relation (reflexive, symmetric, and transitive)", <<>>)
    ELSE Outcome(FALSE, "No - Missing properties: ",
                 CommaJoin(MissingProperties(ref, sym, trans)))

\* The caches after the three checks is_equivalence_relation makes on i.
CacheAfterThree(c, i) ==
    CacheAfter(CacheAfter(CacheAfter(c, i, "reflexive"), i, "symmetric"), i, "transitive")

\* is_equivalence_relation of instance i, the caches being c
IsEquivalenceRelation(c, i) ==
    EquivalenceVerdict(Check(c, i, "reflexive")[1],
                       Check(c, i, "symmetric")[1],
                       Check(c, i, "transitive")[1])

----------------------------------------------------------------------------
(* RelationChecker instances and the calls made on them.                   *)

Elements == { "1", "2", "3" }

Pairs == Elements \X Elements

\* The orders in which iteration can visit the set S.
Orders(S) == { o \in [ 1..Cardinality(S) -> S ] : Range(o) = S }

SetInputs == UNION { Orders(S) : S \in SUBSET Elements }

RelationInputs ==
    UNION { Orders(S) : S \in { T \in SUBSET Pairs : Cardinality(T) <= MaxPairs } }

\* Sets and relations that differ in every property: the identity, one
\* pair, a cycle of three, two pairs with their reverses, and two elements
\* related to each other and themselves beside one related to nothing.
CheckerInputs ==
    { << << "1", "2", "3" >>, << << "1", "1" >>, << "2", "2" >>, << "3", "3" >> >> >>,
      << << "2", "1" >>, << << "1", "2" >> >> >>,
      << << "3", "1", "2" >>, << << "1", "2" >>, << "2", "3" >>, << "3", "1" >> >> >>,
      << << "1", "2", "3" >>,
         << << "1", "2" >>, << "3", "1" >>, << "2", "1" >>, << "1", "3" >> >> >>,
      << << "2", "1" >>,
         << << "2", "1" >>, << "1", "1" >>, << "1", "2" >>, << "2", "2" >> >> >> }

\* RelationChecker(set_a, relation) was called once: one instance, over a
\* set and a relation of the bounds or over one of the larger inputs.
RelationInit ==
    /\ \E in \in (SetInputs \X RelationInputs) \cup CheckerInputs :
          /\ set_a = ("first" :> in[1])
          /\ relation = ("first" :> in[2])
    /\ cache = ("first" :> <<>>)
    /\ call = "__init__" /\ args = << "first" >>
    /\ pc = "returned"
    /\ ret = Return(<<>>)
    /\ variables = {} /\ history = {}
    /\ vertices = {} /\ edges = <<>> /\ adjacency = NoAdjacency
    /\ frames = <<>>

\* RelationChecker(set_a, relation) was called twice: two instances.
CheckersInit ==
    /\ \E f \in [ Instances -> CheckerInputs ] :
          /\ set_a = [ i \in Instances |-> f[i][1] ]
          /\ relation = [ i \in Instances |-> f[i][2] ]
    /\ cache = [ i \in Instances |-> <<>> ]
    /\ call = "__init__" /\ args = << "second" >>
    /\ pc = "returned"
    /\ ret = Return(<<>>)
    /\ variables = {} /\ history = {}
    /\ vertices = {} /\ edges = <<>> /\ adjacency = NoAdjacency
    /\ frames = <<>>

\* The method name, which looks key up in self._cache, runs on some
\* instance; history keeps the calls made and what they returned.
Checks(name, key) ==
    /\ \E i \in DOMAIN cache :
          /\ args' = << i >>
          /\ ret' = Return(Check(cache, i, key))
          /\ cache' = CacheAfter(cache, i, key)
          /\ history' = history \cup { << name, << i >>, Return(Check(cache, i, key)) >> }
    /\ UNCHANGED << set_a, relation, pc, variables, treeVars, frames >>

CheckReflexiveCall ==
    /\ call' = "check_reflexive"
    /\ Checks("check_reflexive", "reflexive")

CheckSymmetricCall ==
    /\ call' = "check_symmetric"
    /\ Checks("check_symmetric", "symmetric")

CheckAntisymmetricCall ==
    /\ call' = "check_antisymmetric"
    /\ Checks("check_antisymmetric", "antisymmetric")

CheckTransitiveCall ==
    /\ call' = "check_transitive"
    /\ Checks("check_transitive", "transitive")

IsEquivalenceRelationCall ==
    /\ call' = "is_equivalence_relation"
    /\ \E i \in DOMAIN cache :
          /\ args' = << i >>
          /\ ret' = Return(IsEquivalenceRelation(cache, i))
          /\ cache' = CacheAfterThree(cache, i)
          /\ history' = history \cup { << "is_equivalence_relation", << i >>,
                                        Return(IsEquivalenceRelation(cache, i)) >> }
    /\ UNCHANGED << set_a, relation, pc, variables, treeVars, frames >>

RelationNext ==
    \/ CheckReflexiveCall
    \/ CheckSymmetricCall
    \/ CheckAntisymmetricCall
    \/ CheckTransitiveCall
    \/ IsEquivalenceRelationCall

\* One instance over every set and relation of the bounds.
RelationSpec == RelationInit /\ [][RelationNext]_vars

\* Two instances side by side.
CheckersSpec == CheckersInit /\ [][RelationNext]_vars

----------------------------------------------------------------------------
(* Properties of the engine.                                               *)

Returned(c) == pc = "returned" /\ call = c

ImpliesTrees == { t \in Arrows : t[1] = "imp" }
IffTrees == { t \in Arrows : t[1] = "iff" }

Pow2(n) == 2 ^ n

\* Bit k (0 the least significant) of i is 1.
Bit(i, k) == (i \div Pow2(k)) % 2 = 1

\* Every dict over the names, in their order.
RECURSIVE DictsOver(_)
DictsOver(names) ==
    IF names = <<>> THEN { <<>> }
    ELSE { << <<Head(names), b>> >> \o d : b \in BOOLEAN, d \in DictsOver(Tail(names)) }

\* names are in strictly increasing alphabetical order.
StrictlySorted(names) ==
    \A j \in 1..Len(names), k \in 1..Len(names) :
        j < k => IndexOf(LowerLetters, names[j]) < IndexOf(LowerLetters, names[k])

\* C1: for every assignment and operands A and B, _evaluate on 'A -> B'
\* returns (NOT value(A)) OR value(B), the whole left span A negated.
C1_MaterialImplication ==
    Returned("_evaluate") =>
        \A t \in ImpliesTrees :
            args[1] = Render(t) =>
                /\ ret.ok
                /\ ret.val = PyBool((~Sem(t[2], args[2])) \/ Sem(t[3], args[2]))

\* C2: for every assignment and operands A and B, _evaluate on 'A <-> B'
\* succeeds and returns True exactly when value(A) equals value(B).
C2_Biconditional ==
    Returned("_evaluate") =>
        \A t \in IffTrees :
            args[1] = Render(t) =>
                /\ ret.ok
                /\ ret.val = PyBool(Sem(t[2], args[2]) = Sem(t[3], args[2]))

\* C3: for every well-formed expression e, generate_truth_table(e) returns
\* a table (does not raise) with exactly 2^|_extract_variables(e)| rows, one
\* row with the empty assignment when the support is empty.
C3_TableRowCount ==
    (Returned("generate_truth_table") /\ args[1] \in WellFormedTexts) =>
        /\ ret.ok
        /\ Len(ret.val[2]) = Pow2(Cardinality(ExtractVariables(args[1])))
        /\ (ExtractVariables(args[1]) = {} => ret.val[2][1][1] = <<>>)

\* The rows of a table (names, rows) count in binary over the sorted,
\* duplicate-free names: row i (from 0) gives name j (from 0) bit n-1-j of i,
\* False being 0.
BinaryCounting(table) ==
    /\ StrictlySorted(table[1])
    /\ Len(table[2]) = Pow2(Len(table[1]))
    /\ \A i \in 1..Len(table[2]) :
          /\ Len(table[2][i][1]) = Len(table[1])
          /\ \A j \in 1..Len(table[1]) :
                table[2][i][1][j] = << table[1][j], Bit(i - 1, Len(table[1]) - j) >>

\* C4: the rows of generate_truth_table and of check_equivalence follow
\* binary counting over the sorted variables, first variable most
\* significant, False before True; the variable list is sorted and
\* duplicate-free.
C4_RowOrder ==
    /\ (Returned("generate_truth_table") /\ ret.ok) => BinaryCounting(ret.val)
    /\ (Returned("check_equivalence") /\ ret.ok /\ AllVars(args[1], args[2]) # <<>>) =>
          /\ BinaryCounting(ret.val[3])
          /\ BinaryCounting(ret.val[4])

C4_Witness ==
    /\ Returned("check_equivalence") /\ ret.ok
    /\ AllVars(args[1], args[2]) # <<>>
    /\ Len(ret.val[3][1]) >= 2
    /\ ret.val[3][2][2][1][Len(ret.val[3][1])][2] = TRUE

\* The two expressions evaluate to the same result under the dict d.
SameResult(expr1, expr2, d) == Evaluate(expr1, d) = Evaluate(expr2, d)

\* The assignments of the rows of a table returned by check_equivalence:
\* (names, rows), or the one-row list of the case without variables.
RowAssignments(table, names) ==
    IF names = <<>> THEN [ i \in 1..Len(table) |-> table[i][1] ]
    ELSE [ i \in 1..Len(table[2]) |-> table[2][i][1] ]

\* C5: check_equivalence returns equivalent = True iff the expressions
\* evaluate to the same result on each of the 2^n assignments over the
\* sorted union of their supports; both tables are over that joint support,
\* with the same number of rows and the same assignment at each position.
C5_EquivalentIffAllRowsAgree ==
    (Returned("check_equivalence") /\ ret.ok) =>
        /\ ret.val[1] <=>
              \A d \in DictsOver(Sorted(ExtractVariables(args[1])
                                        \cup ExtractVariables(args[2]))) :
                  SameResult(args[1], args[2], d)
        /\ RowAssignments(ret.val[3], AllVars(args[1], args[2]))
              = RowAssignments(ret.val[4], AllVars(args[1], args[2]))
        /\ Len(RowAssignments(ret.val[3], AllVars(args[1], args[2])))
              = Pow2(Cardinality(ExtractVariables(args[1]) \cup ExtractVariables(args[2])))
        /\ { RowAssignments(ret.val[3], AllVars(args[1], args[2]))[i] :
                i \in 1..Len(RowAssignments(ret.val[3], AllVars(args[1], args[2]))) }
              = DictsOver(Sorted(ExtractVariables(args[1]) \cup ExtractVariables(args[2])))

C5_Witness ==
    /\ Returned("check_equivalence") /\ ret.ok
    /\ ret.val[1] = TRUE
    /\ args[1] # args[2]
    /\ ExtractVariables(args[1]) # ExtractVariables(args[2])

\* The dict d printed as "k=value, k=value", in the order of d.
RECURSIVE Printed(_)
Printed(d) ==
    IF d = <<>> THEN <<>>
    ELSE << d[1][1], "=" >> \o StrBool(d[1][2])
         \o (IF Len(d) > 1 THEN <<",", " ">> \o Printed(Tail(d)) ELSE <<>>)

\* Rows i of the two tables hold different results.
Differ(t1, t2, i) == t1[2][i][2] # t2[2][i][2]

\* C6: when check_equivalence finds the expressions not equivalent, the
\* assignment in the explanation is that of the first row, in enumeration
\* order, on which the results differ, printed as 'variable=value' sorted by
\* variable name.
C6_FirstDivergentRow ==
    (Returned("check_equivalence") /\ ret.ok /\ ~ret.val[1]
        /\ AllVars(args[1], args[2]) # <<>>) =>
        \E i \in 1..Len(ret.val[3][2]) :
            /\ Differ(ret.val[3], ret.val[4], i)
            /\ \A k \in 1..(i - 1) : ~Differ(ret.val[3], ret.val[4], k)
            /\ StrictlySorted([ j \in 1..Len(ret.val[3][2][i][1]) |->
                                    ret.val[3][2][i][1][j][1] ])
            /\ ret.val[2] = Text("No - Different results when ",
                                 Printed(ret.val[3][2][i][1]))

\* Not equivalent, and the results differ on more than one row.
C6_Witness ==
    /\ Returned("check_equivalence") /\ ret.ok /\ ~ret.val[1]
    /\ AllVars(args[1], args[2]) # <<>>
    /\ Cardinality({ i \in 1..Len(ret.val[3][2]) : Differ(ret.val[3], ret.val[4], i) }) >= 2

\* C7: check_equivalence('p^q', 'p v q') returns not equivalent and the
\* counterexample it reports is exactly 'p=False, q=True'.
C7_AndOrCounterexample ==
    (Returned("check_equivalence")
        /\ args = << <<"p","^","q">>, <<"p"," ","v"," ","q">> >>) =>
        /\ ret.ok
        /\ ret.val[1] = FALSE
        /\ ret.val[2].tail = << "p","=","F","a","l","s","e",",", " ",
                                "q","=","T","r","u","e" >>

\* C8: check_equivalence('p->q', '~p v q') returns equivalent, having
\* compared exactly the 4 rows over {p, q}: each table has the variable list
\* [p, q] and 4 rows.
C8_ImplicationIdentity ==
    (Returned("check_equivalence")
        /\ args = << <<"p","-",">","q">>, <<"~","p"," ","v"," ","q">> >>) =>
        /\ ret.ok
        /\ ret.val[1] = TRUE
        /\ ret.val[3][1] = <<"p", "q">> /\ Len(ret.val[3][2]) = 4
        /\ ret.val[4][1] = <<"p", "q">> /\ Len(ret.val[4][2]) = 4

\* The letters that _evaluate rewrites as operators.
OperatorLetters == { OrToken, AndToken, NotToken } \cap Range(LowerLetters)

\* C9: _extract_variables never returns a letter that the evaluator treats
\* as an operator; the support of 'p v q' is {p, q}.
C9_NoOperatorInSupport ==
    Returned("_extract_variables") =>
        /\ ret.val \cap OperatorLetters = {}
        /\ (args[1] = <<"p"," ","v"," ","q">> => ret.val = {"p", "q"})

IsLetter(c) == c \in Range(LowerLetters) \cup Range(UpperLetters)

\* C10 as stated: _extract_variables(s) is the set of the lower-case
\* letters p..z that occur in s with a non-letter character, or an end of
\* s, on each side; it never raises.
C10_IsolatedByNonLetters ==
    Returned("_extract_variables") =>
        /\ ret.ok
        /\ ret.val = { c \in Range(LowerLetters) :
                         /\ IsPZ(c)
                         /\ \E i \in 1..Len(args[1]) :
                               /\ args[1][i] = c
                               /\ (i = 1 \/ ~IsLetter(args[1][i-1]))
                               /\ (i = Len(args[1]) \/ ~IsLetter(args[1][i+1])) }

\* C10, amended: _extract_variables(s) is the set of the letters p..z that
\* occur in the lower-cased s with a non-word character (not a letter, a
\* digit or an underscore), or an end of the text, on each side; it never
\* raises, and the set is empty when there is no such letter.
C10_IsolatedInLoweredText ==
    Returned("_extract_variables") =>
        /\ ret.ok
        /\ \A c \in Range(LowerLetters) \cup Range(UpperLetters) \cup Digits
                    \cup RawChars :
              c \in ret.val <=>
                 /\ c \in { "p","q","r","s","t","u","v","w","x","y","z" }
                 /\ \E i \in 1..Len(args[1]) :
                       /\ LowerChar(args[1][i]) = c
                       /\ (i = 1 \/ ~IsWordChar(LowerChar(args[1][i-1])))
                       /\ (i = Len(args[1]) \/ ~IsWordChar(LowerChar(args[1][i+1])))
        /\ ret.val \subseteq Range(LowerLetters)

\* An upper-case variable letter next to a digit-free boundary was found.
C10_Witness ==
    /\ Returned("_extract_variables")
    /\ args[1] = << "P", " ", "p", "1" >> \/ args[1] = << "P", " ", "1" >>
    /\ ret.val = { "p" }

\* The number of parentheses open after the first i characters of s.
OpenAt(s, i) ==
    Cardinality({ j \in 1..i : s[j] = "(" }) - Cardinality({ j \in 1..i : s[j] = ")" })

HasArrow(s) == \E i \in 1..Len(s) : StartsWithAt(s, Implication, i)

\* C11: every expression whose parentheses are unbalanced makes
\* generate_truth_table and check_equivalence raise; no unbalanced
\* expression yields a truth table.
C11_UnbalancedRaises ==
    /\ (Returned("generate_truth_table") /\ ~Balanced(args[1])) => ~ret.ok
    /\ (Returned("check_equivalence") /\ (~Balanced(args[1]) \/ ~Balanced(args[2])))
          => ~ret.ok

\* check_equivalence raised on a second expression that has an arrow and a
\* parenthesis without a match two levels deep.
C11_Witness ==
    /\ Returned("check_equivalence") /\ ~ret.ok
    /\ Balanced(args[1]) /\ ~Balanced(args[2])
    /\ HasArrow(args[2])
    /\ \E i \in 1..Len(args[2]) : OpenAt(args[2], i) >= 2
    /\ OpenAt(args[2], Len(args[2])) = 1

\* The message of a raised error carries the text after its fixed words.
Carries(message, text) == message[2] = text

\* C12: every error raised by generate_truth_table or check_equivalence
\* has a message that carries the original text of the expression, exactly
\* as the caller passed it (not lower-cased, not rewritten), also for an
\* expression without variables that cannot be evaluated.
C12_MessageCarriesOriginalText ==
    /\ (Returned("generate_truth_table") /\ ~ret.ok) => Carries(ret.val, args[1])
    /\ (Returned("check_equivalence") /\ ~ret.ok) =>
          \/ Carries(ret.val, args[1])
          \/ Carries(ret.val, args[2])

\* C13: for every expression of variables, '~', '^', 'v' and balanced
\* parentheses and every assignment of its variables, _evaluate returns
\* the value under the precedence NOT > AND > OR, both binary operators
\* left-associative: 'p v q ^ r' is p OR (q AND r), '~p ^ q' is
\* (NOT p) AND q.
C13_Precedence ==
    Returned("_evaluate") =>
        \A t \in PrecedenceTrees :
            args[1] \in { Render(t), RenderSpaced(t) } =>
                ret.ok /\ ret.val = PyBool(Sem(t, args[2]))

\* 'p v ~p ^ q' with p True and q False is True: p OR ((NOT p) AND q), where
\* (p OR NOT p) AND q would be False.
C13_Witness ==
    /\ Returned("_evaluate") /\ ret.ok
    /\ args[1] = << "p", " ", "v", " ", "~", "p", " ", "^", " ", "q" >>
    /\ Lookup(args[2], "p") /\ ~Lookup(args[2], "q")
    /\ ret.val = "True"

\* C14: across any sequence of _extract_variables, generate_truth_table,
\* check_equivalence and format_truth_table calls on one checker, with
\* calls that raise, self.variables stays as __init__ left it, and a call
\* repeated later returns the same outcome as before, the same table in the
\* same row order.
C14_Pure ==
    /\ variables = {}
    /\ pc = "returned" =>
          \A h \in history : (h[1] = call /\ h[2] = args) => h[3] = ret

\* generate_truth_table returned a table for the second time, after a call
\* that raised and a call of _extract_variables that found variables.
C14_Witness ==
    /\ Returned("generate_truth_table") /\ ret.ok /\ Len(ret.val[2]) = 4
    /\ << call, args, ret >> \in history
    /\ \E h \in history : ~h[3].ok
    /\ \E h \in history : h[1] = "_extract_variables" /\ h[3].val # {}
    /\ \E h \in history : h[1] = "format_truth_table" /\ h[3].ok

\* C15: every check_equivalence call that returns gives one of two
\* explanations: the 'identical truth tables' form when the verdict is True,
\* the 'different results when <assignment>' form naming an assignment when
\* it is False; there is no third form, also when the joint support is
\* empty.
C15_TwoExplanationForms ==
    (Returned("check_equivalence") /\ ret.ok) =>
        IF ret.val[1]
        THEN ret.val[2] = Text("Yes - Both expressions have identical truth tables", <<>>)
        ELSE /\ ret.val[2].text = "No - Different results when "
             /\ ret.val[2].tail # <<>>

\* t has the structure (variables, rows) over the names, every row a pair
\* of an assignment of the names and a result, and format_truth_table
\* accepts it.
IsTableOver(t, names) ==
    /\ Len(t) = 2
    /\ t[1] = names
    /\ \A i \in 1..Len(t[2]) :
          /\ Len(t[2][i]) = 2
          /\ [ j \in 1..Len(t[2][i][1]) |-> t[2][i][1][j][1] ] = names
    /\ FormatTruthTable(t).ok

\* C16: both tables returned by check_equivalence have the structure
\* (variables, rows) that generate_truth_table returns and
\* format_truth_table accepts, every row an (assignment, result) pair, also
\* when the joint support is empty.
C16_TablesHaveTableStructure ==
    (Returned("check_equivalence") /\ ret.ok) =>
        /\ IsTableOver(ret.val[3], AllVars(args[1], args[2]))
        /\ IsTableOver(ret.val[4], AllVars(args[1], args[2]))

\* Every row of the two tables has the same result.
ResultsAgree(t1, t2) ==
    /\ Len(t1[2]) = Len(t2[2])
    /\ \A i \in 1..Len(t1[2]) : t1[2][i][2] = t2[2][i][2]

\* C17: for distinct variables x and y out of p, q, r, s,
\* check_equivalence('x<->y', '(x->y)^(y->x)') returns equivalent, the two
\* results agreeing on all 4 rows.
C17_BiconditionalAsDoubleImplication ==
    Returned("check_equivalence") =>
        \A xy \in DistinctLetters :
            args = << BiconditionalOf(xy[1], xy[2]), DoubleImplicationOf(xy[1], xy[2]) >>
            => /\ ret.ok
               /\ ret.val[1] = TRUE
               /\ Len(ret.val[3][2]) = 4
               /\ ResultsAgree(ret.val[3], ret.val[4])

\* 's<->r' and '(s->r)^(r->s)' were compared, the results are True on some
\* rows and False on others.
C17_Witness ==
    /\ Returned("check_equivalence") /\ ret.ok
    /\ args = << BiconditionalOf("s", "r"), DoubleImplicationOf("s", "r") >>
    /\ \E i \in 1..4 : ret.val[3][2][i][2] = "True"
    /\ \E i \in 1..4 : ret.val[4][2][i][2] = "False"

\* C18: for distinct variables x and y out of p, q, r, s,
\* check_equivalence('x v y', 'y v x') returns equivalent and the two
\* tables returned are the same row for row.
C18_CommutedOperands ==
    Returned("check_equivalence") =>
        \A xy \in DistinctLetters :
            args = << DisjunctionOf(xy[1], xy[2]), DisjunctionOf(xy[2], xy[1]) >>
            => /\ ret.ok
               /\ ret.val[1] = TRUE
               /\ ret.val[3] = ret.val[4]

\* 'r v p' and 'p v r' were compared, over rows in which the results are
\* True and rows in which they are False.
C18_Witness ==
    /\ Returned("check_equivalence") /\ ret.ok
    /\ args = << DisjunctionOf("r", "p"), DisjunctionOf("p", "r") >>
    /\ \E i \in 1..Len(ret.val[3][2]) : ret.val[3][2][i][2] = "True"
    /\ \E i \in 1..Len(ret.val[4][2]) : ret.val[4][2][i][2] = "False"

\* The tree is true under every assignment.
IsTautology(t) == \A d \in Assignments : Sem(t, d)

\* C19: every row of generate_truth_table('p v ~p') has the result True,
\* and check_equivalence of two tautologies returns equivalent.
C19_Tautologies ==
    /\ (Returned("generate_truth_table") /\ args[1] = <<"p", " ", "v", " ", "~", "p">>) =>
          /\ ret.ok
          /\ \A i \in 1..Len(ret.val[2]) : ret.val[2][i][2] = "True"
    /\ Returned("check_equivalence") =>
          \A t \in TautologyTrees, u \in TautologyTrees :
              (IsTautology(t) /\ IsTautology(u) /\ args = << Render(t), Render(u) >>)
              => ret.ok /\ ret.val[1] = TRUE

----------------------------------------------------------------------------
(* Properties of the tree checker.                                         *)

\* The undirected graph of the checker: u and w are joined by an edge.
Joined(es, u, w) == <<u, w>> \in Range(es) \/ <<w, u>> \in Range(es)

\* The vertices that a path of at most k edges out of es leads to from the
\* vertices of S.
RECURSIVE Within(_, _, _)
Within(es, S, k) ==
    IF k = 0 THEN S
    ELSE Within(es, S \cup { w \in VertexNames : \E u \in S : Joined(es, u, w) }, k - 1)

\* Every two vertices are joined by a path.
GraphConnected(vs, es) ==
    \A u \in vs : vs \subseteq Within(es, {u}, Cardinality(vs))

\* es without its i-th edge.
WithoutEdge(es, i) == SubSeq(es, 1, i - 1) \o SubSeq(es, i + 1, Len(es))

\* The graph has a cycle: an edge from a vertex to itself, or an edge whose
\* ends are joined by a path that does not use it.
GraphHasCycle(vs, es) ==
    \E i \in 1..Len(es) :
        \/ es[i][1] = es[i][2]
        \/ es[i][2] \in Within(WithoutEdge(es, i), { es[i][1] }, Cardinality(vs))

\* C20: after any sequence of set_vertices and add_edge calls, is_tree
\* returns True exactly when there is a vertex, |E| = |V| - 1, the graph has
\* no cycle and is connected; has_cycle and is_connected return what the
\* graph-theoretic definitions say; without vertices is_tree returns False.
C20_IsTree ==
    /\ Returned("is_tree") =>
          (ret.val[1] <=> /\ vertices # {}
                          /\ Len(edges) = Cardinality(vertices) - 1
                          /\ ~GraphHasCycle(vertices, edges)
                          /\ GraphConnected(vertices, edges))
    /\ Returned("has_cycle") => (ret.val[1] <=> GraphHasCycle(vertices, edges))
    /\ Returned("is_connected") => (ret.val[1] <=> GraphConnected(vertices, edges))

\* is_tree returned True for a tree over four vertices.
C20_Witness ==
    /\ Returned("is_tree") /\ ret.val[1] = TRUE
    /\ Cardinality(vertices) = 4 /\ Len(edges) = 3

\* C21: add_edge(v1, v2) returns (False, message) and leaves edges and
\* adjacency as they were when v1 or v2 is not a vertex or the edge exists
\* in either orientation; otherwise it returns (True, message), appends the
\* one edge (v1, v2) and records both directions in adjacency.  add_edges
\* returns one outcome per pair, each what add_edge gives in its turn: a
\* pair is added exactly when its ends are vertices, the edge was not there
\* before the call and no earlier pair of the list is the same edge; the
\* pairs added are appended in the order of the list.
AddEdgeRefused(vs, es, v1, v2) ==
    v1 \notin vs \/ v2 \notin vs \/ Joined(es, v1, v2)

BothDirections(adj, pairs) ==
    [ v \in VertexNames |->
        adj[v] \cup { p[2] : p \in { q \in pairs : q[1] = v } }
               \cup { p[1] : p \in { q \in pairs : q[2] = v } } ]

AddEdgeContract ==
    IF AddEdgeRefused(vertices, edges, args'[1], args'[2])
    THEN ret'.val[1] = FALSE /\ edges' = edges /\ adjacency' = adjacency
    ELSE /\ ret'.val[1] = TRUE
         /\ edges' = Append(edges, << args'[1], args'[2] >>)
         /\ adjacency' = BothDirections(adjacency, { << args'[1], args'[2] >> })

\* The i-th pair of the list is one that add_edges adds.
AddedInTurn(vs, es, pairs, i) ==
    /\ ~AddEdgeRefused(vs, es, pairs[i][1], pairs[i][2])
    /\ \A j \in 1..(i - 1) : { pairs[j][1], pairs[j][2] } # { pairs[i][1], pairs[i][2] }

\* The pairs of the list that add_edges adds, in the order of the list,
\* from the i-th on.
RECURSIVE AddedFrom(_, _, _, _)
AddedFrom(vs, es, pairs, i) ==
    IF i > Len(pairs) THEN <<>>
    ELSE (IF AddedInTurn(vs, es, pairs, i) THEN << pairs[i] >> ELSE <<>>)
         \o AddedFrom(vs, es, pairs, i + 1)

AddedPairs(vs, es, pairs) == AddedFrom(vs, es, pairs, 1)

AddEdgesContract ==
    /\ Len(ret'.val) = Len(args'[1])
    /\ \A i \in 1..Len(args'[1]) :
          ret'.val[i][1] = AddedInTurn(vertices, edges, args'[1], i)
    /\ edges' = edges \o AddedPairs(vertices, edges, args'[1])
    /\ adjacency' = BothDirections(adjacency,
                                   Range(AddedPairs(vertices, edges, args'[1])))

C21_AddEdgeContract ==
    [][ /\ call' = "add_edge" => AddEdgeContract
        /\ call' = "add_edges" => AddEdgesContract ]_vars

\* add_edges returned (True, ...) for its first pair and (False, ...) for
\* its second, the same edge the other way round.
C21_Witness ==
    /\ Returned("add_edges") /\ Len(args[1]) = 2
    /\ args[1][1] = << args[1][2][2], args[1][2][1] >>
    /\ ret.val[1][1] = TRUE /\ ret.val[2][1] = FALSE

\* C26: in every state reached through the constructor, set_vertices and
\* add_edge, when check_edge_count reports "Too many edges ... (contains
\* cycle)" has_cycle reports a cycle, and when it reports "Too few edges ...
\* (graph is disconnected)" is_connected reports the graph as not connected.
TooMany == "Too many edges: {e_count} > {expected} (contains cycle)"

TooFew == "Too few edges: {e_count} < {expected} (graph is disconnected)"

C26_EdgeCountMessagesAgree ==
    /\ CheckEdgeCount(vertices, edges)[2].text = TooMany
          => \A o \in HasCycle(vertices, adjacency) : o[1] = TRUE
    /\ CheckEdgeCount(vertices, edges)[2].text = TooFew
          => \A o \in IsConnected(vertices, adjacency) : o[1] = FALSE

\* C27: after any sequence of set_vertices, add_edge and add_edges calls
\* both ends of every stored edge are vertices, no undirected edge is stored
\* twice in either orientation, and v2 is in adjacency[v1] exactly when
\* (v1, v2) or (v2, v1) is in edges; set_vertices leaves edges and adjacency
\* empty.
C27_StateInvariant ==
    /\ \A i \in 1..Len(edges) : edges[i][1] \in vertices /\ edges[i][2] \in vertices
    /\ \A i \in 1..Len(edges), j \in 1..Len(edges) :
          i # j => { edges[i][1], edges[i][2] } # { edges[j][1], edges[j][2] }
    /\ \A v1 \in VertexNames, v2 \in VertexNames :
          v2 \in adjacency[v1] <=> Joined(edges, v1, v2)
    /\ call = "set_vertices" => edges = <<>> /\ adjacency = NoAdjacency

\* add_edges has just stored a self-loop next to other edges.
C27_Witness ==
    /\ Returned("add_edges") /\ Len(edges) >= 2
    /\ \E i \in 1..Len(ret.val) : ret.val[i][1] = TRUE /\ args[1][i] = <<"c", "c">>

\* The edges of es that do not touch v.
EdgesAvoiding(es, v) == SelectSeq(es, LAMBDA e : e[1] # v /\ e[2] # v)

\* The vertices a path leads to from root.
ReachableFrom(es, root) == Within(es, { root }, Len(VertexOrder))

\* The children of v in the tree hanging from root: the neighbours of v
\* that v separates from root.
ChildrenOf(es, root, v) ==
    { w \in VertexNames :
        /\ w # v /\ Joined(es, v, w)
        /\ root \notin ReachableFrom(EdgesAvoiding(es, v), w) }

\* Left subtree, node, right subtree over the sorted children ch of v, a
\* lone child being the left one.
RECURSIVE InOrderOf(_, _, _)
InOrderOver(es, root, v, ch) ==
    IF Len(ch) = 0 THEN << v >>
    ELSE IF Len(ch) = 1 THEN InOrderOf(es, root, ch[1]) \o << v >>
    ELSE InOrderOf(es, root, ch[1]) \o << v >> \o InOrderOf(es, root, ch[2])

InOrderOf(es, root, v) == InOrderOver(es, root, v, SortedVertices(ChildrenOf(es, root, v)))

\* The list l holds every element of S exactly once.
ListsOnce(l, S) == Range(l) = S /\ Len(l) = Cardinality(S)

\* The position of v in the list l.
Pos(l, v) == CHOOSE i \in 1..Len(l) : l[i] = v

\* C29: for a root that is a vertex, in_order is 'N/A (Not a Binary Tree)'
\* exactly when some vertex of the tree rooted at root has more than two
\* children; otherwise it lists every vertex reachable from root exactly
\* once, as left subtree, node, right subtree with the children in sorted
\* order and a lone child before its parent.  The tree is the one the
\* search from root builds; in a graph without cycle its children are the
\* neighbours a vertex separates from root.
C29_InOrderPolicy ==
    (Returned("get_traversals") /\ args[1] \in vertices) =>
       /\ ret.val.in_order = PyStr(NotBinary)
             <=> \E v \in VertexNames : Len(ChildrenMap(adjacency, args[1])[v]) > 2
       /\ ret.val.in_order.type = "list"
             => ListsOnce(ret.val.in_order.val, ReachableFrom(edges, args[1]))
       /\ ~GraphHasCycle(vertices, edges) =>
             /\ \A v \in VertexNames :
                   Range(ChildrenMap(adjacency, args[1])[v])
                     = IF v \in ReachableFrom(edges, args[1])
                       THEN ChildrenOf(edges, args[1], v) ELSE {}
             /\ ret.val.in_order.type = "list"
                   => /\ ret.val.in_order.val = InOrderOf(edges, args[1], args[1])
                      /\ \A v \in ReachableFrom(edges, args[1]) :
                            \A w \in ChildrenOf(edges, args[1], v) :
                               Cardinality(ChildrenOf(edges, args[1], v)) = 1
                               => Pos(ret.val.in_order.val, w) < Pos(ret.val.in_order.val, v)

\* An in-order list of four vertices where one vertex has two children and
\* another a lone child.
C29_Witness ==
    /\ Returned("get_traversals") /\ args[1] \in vertices
    /\ ~GraphHasCycle(vertices, edges)
    /\ ret.val.in_order.type = "list" /\ Len(ret.val.in_order.val) = 4
    /\ \E v \in vertices : Cardinality(ChildrenOf(edges, args[1], v)) = 2
    /\ \E v \in vertices : Cardinality(ChildrenOf(edges, args[1], v)) = 1

\* There is a vertex, |E| = |V| - 1, no cycle, and the graph is connected.
ValidTree(vs, es) ==
    /\ vs # {} /\ Len(es) = Cardinality(vs) - 1
    /\ ~GraphHasCycle(vs, es) /\ GraphConnected(vs, es)

\* In the list l every parent comes before its children.
ParentsFirst(l, es, root) ==
    \A v \in Range(l) : \A w \in ChildrenOf(es, root, v) : Pos(l, v) < Pos(l, w)

\* In the list l every parent comes after its children.
ParentsLast(l, es, root) ==
    \A v \in Range(l) : \A w \in ChildrenOf(es, root, v) : Pos(l, w) < Pos(l, v)

\* In the list l the children of one parent come in alphabetical order.
SiblingsSorted(l, es, root) ==
    \A v \in Range(l) : \A w1 \in ChildrenOf(es, root, v), w2 \in ChildrenOf(es, root, v) :
        IndexOf(VertexOrder, w1) < IndexOf(VertexOrder, w2) => Pos(l, w1) < Pos(l, w2)

TraversalsOfTree ==
    Returned("get_traversals") =>
       IF args[1] \notin vertices
       THEN ret.val = [ pre_order |-> <<>>, in_order |-> PyStr("Invalid root"),
                        post_order |-> <<>> ]
       ELSE ValidTree(vertices, edges) =>
              /\ ListsOnce(ret.val.pre_order, vertices)
              /\ ListsOnce(ret.val.post_order, vertices)
              /\ ret.val.pre_order[1] = args[1]
              /\ ret.val.post_order[Len(ret.val.post_order)] = args[1]
              /\ ParentsFirst(ret.val.pre_order, edges, args[1])
              /\ ParentsLast(ret.val.post_order, edges, args[1])
              /\ SiblingsSorted(ret.val.pre_order, edges, args[1])
              /\ SiblingsSorted(ret.val.post_order, edges, args[1])

\* C30: for a valid tree and a root among its vertices, pre_order and
\* post_order each hold every vertex exactly once, pre_order begins and
\* post_order ends with root, every parent comes before its children in
\* pre_order and after them in post_order, and siblings come in sorted
\* order; a root that is not a vertex gives empty pre_order and post_order
\* and in_order 'Invalid root'.  The call changes neither edges nor
\* vertices.
C30_Traversals ==
    /\ []TraversalsOfTree
    /\ [][ call' = "get_traversals" => vertices' = vertices /\ edges' = edges ]_vars

\* The traversals of a tree of four vertices, its root with two children.
C30_Witness ==
    /\ Returned("get_traversals") /\ args[1] \in vertices
    /\ ValidTree(vertices, edges) /\ Cardinality(vertices) = 4
    /\ Cardinality(ChildrenOf(edges, args[1], args[1])) = 2
    /\ Len(ret.val.pre_order) = 4 /\ Len(ret.val.post_order) = 4

\* The call evaluated the expression: its table came back.
Parses(e) == GenerateTruthTable(e).ok

\* C23: '(' + e + ')' parses whenever e does, and check_equivalence(e,
\* '(' + e + ')') then returns equivalent; the stripping of outer
\* parentheses takes a pair away only when the first '(' matches the last
\* ')': balanced parentheses stay balanced, and '(p) ^ (q)' is evaluated as
\* p ^ q.
C23_RedundantParentheses ==
    Returned("check_equivalence") =>
       /\ args[2] \in { Enclosed(args[1]), Enclosed(Enclosed(args[1])) }
             => /\ Parses(args[1]) => ret.ok
                /\ ret.ok => ret.val[1] = TRUE
       /\ \A i \in 1..2 :
             Balanced(Strip(Lower(args[i])))
                => Balanced(StripOuter(Strip(Lower(args[i]))))
       /\ args[1] = TwoGroups
             => /\ StripOuter(args[1]) = args[1]
                /\ ret.ok /\ ret.val[1] = TRUE

\* 'p->q' and '(p->q)' were found equivalent.
C23_Witness ==
    /\ Returned("check_equivalence")
    /\ args = << <<"p", "-", ">", "q">>, <<"(", "p", "-", ">", "q", ")">> >>
    /\ ret.ok /\ ret.val[1] = TRUE

\* Two calls of generate_truth_table ended alike: both raised, or both
\* returned the same variables and rows.
SameTable(t1, t2) == t1.ok = t2.ok /\ (t1.ok => t1.val = t2.val)

CalleesShorter ==
    \A j \in 1..(Len(frames) - 1) : Len(frames[j].text) < Len(frames[j + 1].expr)

\* A turn of the loop that strips the outer parentheses leaves a shorter
\* text.
StripShortens ==
    (/\ frames # <<>> /\ Len(frames') = Len(frames)
     /\ frames[1].step = "strip" /\ frames'[1].step = "strip")
       => Len(frames'[1].expr) < Len(frames[1].expr)

\* The step-by-step call ends as the method modelled in one piece does.
EndsAsTransformLogic ==
    (pc = "returned" /\ call = "_transform_logic")
       => ret = TransformOutcome(TransformLogic(args[1]))

\* C25: _transform_logic terminates on every input: the call returns or
\* raises, every recursive call (on the left and the right of a top-level
\* '<->' or '->', on the inside of a group) is given a strictly shorter
\* text, and every turn of the loop that strips the outer parentheses
\* leaves a strictly shorter text.
C25_Terminates ==
    /\ <>(pc = "returned" /\ frames = <<>>)
    /\ []CalleesShorter
    /\ [][StripShortens]_vars

\* A call that stripped a pair of parentheses, called itself
\* on both sides of an arrow and on a group, and returned.
C25_Witness ==
    /\ pc = "returned" /\ call = "_transform_logic" /\ ret.ok
    /\ frames = <<>>
    /\ is_fully_enclosed(Strip(args[1]))
    /\ find_operator(StripOuter(Strip(args[1])), Implication) # 0
    /\ \E j \in 1..Len(StripOuter(Strip(args[1]))) : StripOuter(Strip(args[1]))[j] = "("

\* The relation R is reflexive on the set A.
ReflexiveOn(A, R) == \A a \in A : << a, a >> \in R

\* The relation R is symmetric.
SymmetricRelation(R) == \A p \in R : << p[2], p[1] >> \in R

\* The relation R is transitive.
TransitiveRelation(R) ==
    \A p \in R, q \in R : p[2] = q[1] => << p[1], q[2] >> \in R

\* The names of the properties an equivalence relation has and R on A has
\* not, with ", " between them.
FailingProperties(A, R) ==
    CommaJoin(SelectSeq(<< << "reflexive" >>, << "symmetric" >>, << "transitive" >> >>,
                        LAMBDA n : \/ n = << "reflexive" >> /\ ~ReflexiveOn(A, R)
                                   \/ n = << "symmetric" >> /\ ~SymmetricRelation(R)
                                   \/ n = << "transitive" >> /\ ~TransitiveRelation(R)))

\* The flag the call just made returned is b.
Flag(name, b) == Returned(name) => (ret.val[1] <=> b)

\* C22: is_equivalence_relation() returns True exactly when the relation
\* is reflexive on set A, symmetric and transitive; check_reflexive,
\* check_symmetric and check_transitive each return the flag of the
\* mathematical definition; when the answer is False the explanation names
\* exactly the properties that fail.
C22_EquivalenceRelation ==
    /\ Flag("check_reflexive",
            ReflexiveOn(Range(set_a[args[1]]), Range(relation[args[1]])))
    /\ Flag("check_symmetric", SymmetricRelation(Range(relation[args[1]])))
    /\ Flag("check_transitive", TransitiveRelation(Range(relation[args[1]])))
    /\ Flag("is_equivalence_relation",
            /\ ReflexiveOn(Range(set_a[args[1]]), Range(relation[args[1]]))
            /\ SymmetricRelation(Range(relation[args[1]]))
            /\ TransitiveRelation(Range(relation[args[1]])))
    /\ (Returned("is_equivalence_relation") /\ ~ret.val[1])
          => ret.val[2] = Text("No - Missing properties: ",
                               FailingProperties(Range(set_a[args[1]]),
                                                 Range(relation[args[1]])))

\* is_equivalence_relation answered True for a relation that relates two
\* different elements.
C22_Witness ==
    /\ Returned("is_equivalence_relation") /\ ret.val[1]
    /\ \E p \in Range(relation[args[1]]) : p[1] # p[2]

\* The key under which the method name caches its result.
KeyOf(name) ==
    IF name = "check_reflexive" THEN "reflexive"
    ELSE IF name = "check_symmetric" THEN "symmetric"
    ELSE IF name = "check_antisymmetric" THEN "antisymmetric"
    ELSE "transitive"

\* The calls made so far that ran one of the four cached checks.
CheckCalls == { h \in history : h[1] # "is_equivalence_relation" }

\* Some call made so far on instance i has looked key up in the cache.
LookedUp(i, key) ==
    \E h \in history :
       /\ h[2] = << i >>
       /\ \/ h[1] # "is_equivalence_relation" /\ KeyOf(h[1]) = key
          \/ h[1] = "is_equivalence_relation" /\ key # "antisymmetric"

\* C28: the cache is per instance and keyed by property name: every call
\* of check_reflexive, check_symmetric, check_antisymmetric or
\* check_transitive, the first and the repeated ones, in any order and
\* between any other checks, returned what an uncached computation over
\* the set and the relation of its own instance gives, and so the same
\* every time; an instance caches only under the names of the properties,
\* only its own results, and only for the checks made on it.
C28_CachePerInstance ==
    /\ \A h \in CheckCalls :
          h[3] = Return(Computed(KeyOf(h[1]), set_a[h[2][1]], relation[h[2][1]]))
    /\ \A h1 \in history, h2 \in history :
          (h1[1] = h2[1] /\ h1[2] = h2[2]) => h1[3] = h2[3]
    /\ \A i \in DOMAIN cache :
          /\ DOMAIN cache[i] \subseteq Properties
          /\ \A key \in DOMAIN cache[i] :
                /\ cache[i][key] = Computed(key, set_a[i], relation[i])
                /\ LookedUp(i, key)

\* check_transitive has run on both instances and returned different
\* results, and on the first instance it has run again inside or after
\* is_equivalence_relation, on a filled cache.
C28_Witness ==
    /\ \E h1 \in history, h2 \in history :
          /\ h1[1] = "check_transitive" /\ h1[2] = << "first" >>
          /\ h2[1] = "check_transitive" /\ h2[2] = << "second" >>
          /\ h1[3] # h2[3]
    /\ \E h \in history : h[1] = "is_equivalence_relation" /\ h[2] = << "first" >>
    /\ Returned("check_reflexive") /\ args = << "second" >>

====
